---- MODULE Spec2Model ----
(***************************************************************************)
(* A model of the prop-pricing engine: the odds algebra (model/core.py and *)
(* the package's io.py), the capped Kelly sizing, the recommendation       *)
(* tiering, the two batch runs (the slate run of src/model/core.py and the *)
(* straight/alt/td run of the package core.py) and the parlay builder.     *)
(*                                                                         *)
(* Floats are modelled as exact rationals [n, d] in lowest terms, with the *)
(* three non-finite floats and Python's None as distinguished values.      *)
(***************************************************************************)
EXTENDS Integers, Sequences, FiniteSets

VARIABLES
    call,           \* odds-math harness: the function last applied ("none" before)
    arg,            \* odds-math harness: its argument
    ret,            \* odds-math harness: what it returned
    cfg,            \* the loaded configuration (config.yaml)
    priors,         \* data/priors.csv as a frame [columns, rows]
    ctx,            \* the context frames: injuries, schedule, team_rates, weather
    mods,           \* the feed modifiers load_feed_mods returned
    straight,       \* odds/straight.csv
    alt,            \* odds/alt.csv
    td,             \* odds/td.csv
    pc,             \* where the run stands
    exc,            \* the exception that ended the run ("none" while there is none)
    straight_eval,  \* eval_yardage(straight)
    alt_eval,       \* eval_yardage(alt)
    td_eval,        \* the priced touchdown rows
    written,        \* the output files written so far
    odds_df,        \* slate run: odds/odds.csv (odds in run)
    feeds,          \* slate run: what the two public feeds answer
    merged,         \* slate run: the working frame
    final,          \* slate run: the frame returned
    pred_df,        \* build_parlays: the priced rows handed in
    outs,           \* build_parlays: the result rows so far
    fetched,        \* load_feed_mods: what _get_csv returned, feed by feed
    tries           \* load_feed_mods: the requests sent so far, per feed

oddsVars == <<call, arg, ret>>

slateVars == <<odds_df, feeds, merged, final>>

parlayVars == <<pred_df, outs>>

pkgVars ==
    <<cfg, priors, ctx, mods, straight, alt, td, pc, exc,
      straight_eval, alt_eval, td_eval, written>>

\* what of the package run's state the slate run and build_parlays do not use
pkgRest == <<ctx, mods, straight, alt, td, straight_eval, alt_eval, td_eval>>

feedVars == <<fetched, tries>>

vars == <<oddsVars, pkgVars, slateVars, parlayVars, feedVars>>

(***************************************************************************)
(* Float values.                                                           *)
(***************************************************************************)
RECURSIVE GCD(_, _)
GCD(a, b) == IF b = 0 THEN a ELSE GCD(b, a % b)

Abs(x) == IF x < 0 THEN -x ELSE x

Sgn(x) == IF x < 0 THEN -1 ELSE IF x > 0 THEN 1 ELSE 0

\* the float n/d, in lowest terms (d > 0)
Q(n, d) ==
    LET g == GCD(Abs(n), d)
    IN  [n |-> n \div g, d |-> d \div g]

Num(i) == [n |-> i, d |-> 1]

NaN == [n |-> 0, d |-> 0]

PosInf == [n |-> 1, d |-> 0]

NegInf == [n |-> -1, d |-> 0]

\* Python's None
None == [n |-> 0, d |-> -1]

IsNone(x) == x.d = -1

IsNaN(x) == x.d = 0 /\ x.n = 0

IsInf(x) == x.d = 0 /\ x.n # 0

IsFinite(x) == x.d > 0

\* the sign of a/b - c/d for b, d > 0, by continued fractions (no products, so
\* no overflow of the model checker's integers)
RECURSIVE Cmp(_, _, _, _)
Cmp(a, b, c, d) ==
    LET q1 == a \div b
        q2 == c \div d
        r1 == a % b
        r2 == c % d
    IN  IF q1 < q2 THEN -1
        ELSE IF q1 > q2 THEN 1
        ELSE IF r1 = 0 /\ r2 = 0 THEN 0
        ELSE IF r1 = 0 THEN -1
        ELSE IF r2 = 0 THEN 1
        ELSE Cmp(d, r2, b, r1)

\* x < y on floats: False as soon as one side is NaN
Lt(x, y) ==
    IF IsNaN(x) \/ IsNaN(y) THEN FALSE
    ELSE IF IsInf(x) \/ IsInf(y)
         THEN (IF IsInf(x) THEN x.n * 2 ELSE 0) < (IF IsInf(y) THEN y.n * 2 ELSE 0)
              \/ (IsFinite(x) /\ y = PosInf) \/ (x = NegInf /\ IsFinite(y))
    ELSE Cmp(x.n, x.d, y.n, y.d) = -1

Le(x, y) == IF IsNaN(x) \/ IsNaN(y) THEN FALSE ELSE ~Lt(y, x)

Gt(x, y) == Lt(y, x)

Ge(x, y) == Le(y, x)

Neg(x) == [n |-> -x.n, d |-> x.d]

FAbs(x) == [n |-> Abs(x.n), d |-> x.d]

Add(x, y) ==
    IF IsNaN(x) \/ IsNaN(y) THEN NaN
    ELSE IF IsInf(x) THEN (IF IsInf(y) /\ y.n # x.n THEN NaN ELSE x)
    ELSE IF IsInf(y) THEN y
    ELSE LET g == GCD(x.d, y.d)
         IN  Q(x.n * (y.d \div g) + y.n * (x.d \div g), (x.d \div g) * y.d)

Sub(x, y) == Add(x, Neg(y))

Mul(x, y) ==
    IF IsNaN(x) \/ IsNaN(y) THEN NaN
    ELSE IF IsInf(x) \/ IsInf(y)
         THEN (IF x.n = 0 \/ y.n = 0 THEN NaN
               ELSE [n |-> Sgn(x.n) * Sgn(y.n), d |-> 0])
    ELSE LET g1 == GCD(Abs(x.n), y.d)
             g2 == GCD(Abs(y.n), x.d)
         IN  Q((x.n \div g1) * (y.n \div g2), (x.d \div g2) * (y.d \div g1))

\* x / y for y # 0 (Python raises ZeroDivisionError on a zero divisor: the
\* callers decide that case before dividing)
Div(x, y) ==
    IF IsNaN(x) \/ IsNaN(y) THEN NaN
    ELSE IF IsInf(y) THEN (IF IsInf(x) THEN NaN ELSE Num(0))
    ELSE IF IsInf(x) THEN [n |-> Sgn(x.n) * Sgn(y.n), d |-> 0]
    ELSE Mul(x, [n |-> Sgn(y.n) * y.d, d |-> Abs(y.n)])

IsZero(x) == IsFinite(x) /\ x.n = 0

\* Python's max(a, b) and min(a, b): the first argument unless the second beats it
PyMax(a, b) == IF Gt(b, a) THEN b ELSE a

PyMin(a, b) == IF Lt(b, a) THEN b ELSE a

\* Python's round(x) of a finite float: to the nearest integer, halves to even
RoundInt(x) ==
    LET q == x.n \div x.d
        r == x.n - q * x.d
    IN  IF 2 * r < x.d THEN q
        ELSE IF 2 * r > x.d THEN q + 1
        ELSE IF q % 2 = 0 THEN q ELSE q + 1

\* round(x, k) for 10^k = scale; NaN and the infinities round to themselves
RoundTo(x, scale) ==
    IF ~IsFinite(x) THEN x ELSE Q(RoundInt(Mul(x, Num(scale))), scale)

(***************************************************************************)
(* OddsMath, src/model/core.py                                             *)
(***************************************************************************)
\* american_to_prob(odds): None for a missing or zero price
american_to_prob(odds) ==
    IF IsNone(odds) \/ IsNaN(odds) THEN None
    ELSE IF IsZero(odds) THEN None
    ELSE IF Gt(odds, Num(0)) THEN Div(Num(100), Add(odds, Num(100)))
    ELSE Div(Neg(odds), Add(Neg(odds), Num(100)))

\* int(round(-100 * (p / (1 - p)))), the price of a favourite
FavouritePrice(p) == Num(RoundInt(Mul(Num(-100), Div(p, Sub(Num(1), p)))))

\* int(round(100 * ((1 - p) / p))), the price of an underdog
UnderdogPrice(p) == Num(RoundInt(Mul(Num(100), Div(Sub(Num(1), p), p))))

prob_to_american_strict(p) ==
    IF IsNone(p) \/ IsNaN(p) \/ Le(p, Num(0)) \/ Ge(p, Num(1)) THEN None
    ELSE IF Gt(p, Q(1, 2)) THEN FavouritePrice(p)
    ELSE UnderdogPrice(p)

\* prob_to_american(p): None outside (0, 1); the favourite side from p = 0.5 on
prob_to_american(p) ==
    IF IsNone(p) \/ IsNaN(p) \/ Le(p, Num(0)) \/ Ge(p, Num(1)) THEN None
    ELSE IF Ge(p, Q(1, 2)) THEN FavouritePrice(p)
    ELSE UnderdogPrice(p)

(***************************************************************************)
(* OddsMath, the package's io.py                                           *)
(***************************************************************************)
\* american_to_decimal(odds): no check of the price at all
american_to_decimal(odds) ==
    IF Lt(odds, Num(0)) THEN Add(Num(1), Div(Num(100), FAbs(odds)))
    ELSE Add(Num(1), Div(odds, Num(100)))

\* american_to_implied(odds) = 1 / american_to_decimal(odds); the decimal of a
\* real price is never 0 (it is 0 only at odds = -100 on the positive branch,
\* which the sign test excludes)
american_to_implied(odds) == Div(Num(1), american_to_decimal(odds))

\* the clamp of prob_to_american
ClampDen == 1000000

ClampLo == Q(1, ClampDen)

ClampHi == Q(ClampDen - 1, ClampDen)

\* io.prob_to_american(p) for a p that is not NaN (int(round(nan)) raises)
PriceOfClamped(p) == IF Ge(p, Q(1, 2)) THEN FavouritePrice(p) ELSE UnderdogPrice(p)

io_prob_to_american(p) == PriceOfClamped(PyMin(PyMax(p, ClampLo), ClampHi))

(***************************************************************************)
(* Frames and text.                                                        *)
(***************************************************************************)
\* a pandas frame: its column names in order and its rows
Frame(columns, rows) == [columns |-> columns, rows |-> rows]

\* pd.DataFrame(): no columns, no rows (what read_csv gives for a missing file)
NoFrame == Frame(<<>>, <<>>)

\* df.empty
Empty(df) == Len(df.rows) = 0 \/ Len(df.columns) = 0

\* sub in s, on text
Contains(sub, s) ==
    \E i \in 1..(Len(s) - Len(sub) + 1) : SubSeq(s, i, i + Len(sub) - 1) = sub

\* m.get(k, default) on a dict
Get(m, k, default) == IF k \in DOMAIN m THEN m[k] ELSE default

RECURSIVE JoinNames(_)
JoinNames(names) ==
    IF Len(names) = 0 THEN ""
    ELSE IF Len(names) = 1 THEN "'" \o names[1] \o "'"
    ELSE "'" \o names[1] \o "', " \o JoinNames(Tail(names))

\* str(df.columns)
ColumnsStr(columns) == "Index([" \o JoinNames(columns) \o "], dtype='object')"

(***************************************************************************)
(* Kelly and labels: the package's kelly.py and pricing.py                 *)
(***************************************************************************)
\* kelly_fraction(p, american_odds) for a price that is not 0 (b = 100/abs(0)
\* raises ZeroDivisionError: run decides that case)
KellyOfB(p, b) == PyMax(Num(0), Div(Sub(Mul(b, p), Sub(Num(1), p)), b))

kelly_fraction(p, american_odds) ==
    KellyOfB(p, IF Gt(american_odds, Num(0)) THEN Div(american_odds, Num(100))
                ELSE Div(Num(100), FAbs(american_odds)))

\* price_row(side, p_over, p_under, odds_over, odds_under) = (p, fair, imp, edge)
PriceRowOf(p, imp) ==
    [p |-> p,
     fair |-> IF ~IsNaN(p) THEN io_prob_to_american(p) ELSE None,
     imp |-> imp,
     edge |-> IF ~IsNaN(p) THEN Sub(p, imp) ELSE None]

price_row(side, p_over, p_under, odds_over, odds_under) ==
    PriceRowOf(IF side = "Over" THEN p_over ELSE p_under,
               american_to_implied(IF side = "Over" THEN odds_over ELSE odds_under))

\* label(edge_pct, cfg)
label(edge_pct, c) ==
    IF IsNone(edge_pct) THEN "Pass"
    ELSE IF Ge(edge_pct, c.risk.edge_green) THEN "Bet (Green)"
    ELSE IF Ge(edge_pct, c.risk.edge_amber) THEN "Lean (Amber)"
    ELSE "Pass"

\* label(...).replace("Bet", "Bet " + side)
LabelForSide(lab, side) ==
    IF lab = "Bet (Green)" THEN "Bet " \o side \o " (Green)" ELSE lab

(***************************************************************************)
(* Markets: the package's markets.py                                       *)
(***************************************************************************)
\* the standard Normal CDF of scipy, tabulated in hundredths at the half
\* integers from -3 to 3; an argument is rounded to the nearest half and
\* clipped to [-3, 3], where the table reads 0 and 1 as the float CDF does far
\* enough out
PhiPct == <<0, 1, 2, 7, 16, 31, 50, 69, 84, 93, 98, 99, 100>>

Clip(k, lo, hi) == IF k < lo THEN lo ELSE IF k > hi THEN hi ELSE k

NormCdf(z) ==
    IF IsNaN(z) THEN NaN
    ELSE Q(PhiPct[Clip(RoundInt(Mul(z, Num(2))), -6, 6) + 7], 100)

\* the floor under sd in yardage_probs, 1e-6
SdFloorDen == 1000000

\* yardage_probs(mean, sd, line) = (p_over, p_under)
OverUnder(p_under) == [p_over |-> Sub(Num(1), p_under), p_under |-> p_under]

yardage_probs(mean, sd, line) ==
    OverUnder(NormCdf(Div(Sub(line, mean), PyMax(sd, Q(1, SdFloorDen)))))

weather_penalty_strict(temp_f, wind_mph, c) ==
    Mul(IF ~IsNone(wind_mph) /\ Gt(wind_mph, c.volatility.wind_threshold_mph)
        THEN Add(Num(1), c.volatility.wind_sd_widen) ELSE Num(1),
        IF ~IsNone(temp_f) /\ Lt(temp_f, c.volatility.cold_threshold_f)
        THEN Add(Num(1), c.volatility.cold_sd_widen) ELSE Num(1))

\* weather_penalty(temp_f, wind_mph, cfg)
weather_penalty(temp_f, wind_mph, c) ==
    Mul(IF ~IsNone(wind_mph) /\ Ge(wind_mph, c.volatility.wind_threshold_mph)
        THEN Add(Num(1), c.volatility.wind_sd_widen) ELSE Num(1),
        IF ~IsNone(temp_f) /\ Le(temp_f, c.volatility.cold_threshold_f)
        THEN Add(Num(1), c.volatility.cold_sd_widen) ELSE Num(1))

\* widen_for_pressure(is_top10_pressure, sd, cfg)
widen_for_pressure(is_top10_pressure, sd, c) ==
    Mul(sd, Add(Num(1), IF is_top10_pressure
                        THEN c.volatility.widen_sd_if_pressure_top10 ELSE Num(0)))

\* widen_for_low_qb(low_tier_qb, sd, cfg)
widen_for_low_qb(low_tier_qb, sd, c) ==
    Mul(sd, Add(Num(1), IF low_tier_qb
                        THEN c.volatility.widen_sd_if_qb_lowtier ELSE Num(0)))

(***************************************************************************)
(* Features: the package's features.py                                     *)
(***************************************************************************)
\* the priors row a quote merges with on (player, market, team); the priors
\* file holds at most one row per key
PriorMatches(r, pri) ==
    {i \in 1..Len(pri.rows) :
        /\ pri.rows[i].player = r.player
        /\ pri.rows[i].market = r.market
        /\ pri.rows[i].team = r.team}

PriorOf(r, pri) ==
    IF PriorMatches(r, pri) = {} THEN [mean |-> NaN, sd |-> NaN]
    ELSE pri.rows[CHOOSE i \in PriorMatches(r, pri) : TRUE]

\* attach_context raises KeyError when a frame it merges lacks a key column,
\* as the frame of a missing file does
AttachRaises(pri, cx) ==
    \/ Len(pri.columns) = 0
    \/ Len(cx.weather.columns) = 0

\* one row of attach_context(df, ...): the quote with its prior, its usage
\* adjustments (1.0 when the player has none), its opponent and its weather
Merged(r, pr, inj, g, wx) ==
    [game_id |-> r.game_id, team |-> r.team, player |-> r.player,
     market |-> r.market, line |-> r.line,
     odds_over |-> r.odds_over, odds_under |-> r.odds_under,
     mean |-> pr.mean, sd |-> pr.sd,
     snap_adj |-> inj.snap_adj, share_adj |-> inj.share_adj,
     opp |-> IF r.team = g.home THEN g.away ELSE g.home,
     temp_f |-> wx.temp_f, wind_mph |-> wx.wind_mph]

AttachRow(r, pri, cx) ==
    Merged(r, PriorOf(r, pri),
           Get(cx.injuries, r.player, [snap_adj |-> Num(1), share_adj |-> Num(1)]),
           Get(cx.schedule, r.game_id, [home |-> "", away |-> ""]),
           Get(cx.weather.rows, r.game_id, [temp_f |-> NaN, wind_mph |-> NaN]))

\* the columns of attach_context(df, ...)
AttachColumns(df, pri, cx) ==
    df.columns \o <<"mean", "sd", "snap_adj", "share_adj", "home", "away", "opp">>
      \o cx.team_rates_columns \o Tail(cx.weather.columns)

TeamFactorFromZero(t, m) ==
    Mul(Mul(Get(m.pace, t, Num(0)), Get(m.proe, t, Num(0))), Get(m.off_epa, t, Num(0)))

\* adjusted_mu_sd(row, mods, cfg) = (mu, sd), or (None, None)
TeamFactor(t, m) ==
    Mul(Mul(Get(m.pace, t, Num(1)), Get(m.proe, t, Num(1))), Get(m.off_epa, t, Num(1)))

adjusted_mu_sd(row, m, c) ==
    IF IsNaN(row.mean) \/ IsNaN(row.sd) THEN [mu |-> None, sd |-> None]
    ELSE [mu |-> Mul(row.mean,
                     Mul(Mul(TeamFactor(row.team, m), row.snap_adj), row.share_adj)),
          sd |-> widen_for_low_qb(
                     IF Contains("passing", row.market)
                     THEN row.player \in m.low_tier_qb ELSE FALSE,
                     widen_for_pressure(
                         row.opp \in m.top10_pressure,
                         Mul(row.sd, weather_penalty(row.temp_f, row.wind_mph, c)), c),
                     c)]

(***************************************************************************)
(* The package run: core.py                                                *)
(***************************************************************************)
\* market_key(m)
market_key(m) ==
    IF Contains("receiving", m) /\ Contains("yard", m) THEN "receiving_yards"
    ELSE IF Contains("receptions", m) THEN "receptions"
    ELSE IF Contains("rushing", m) /\ Contains("yard", m) THEN "rushing_yards"
    ELSE IF Contains("rush", m) /\ Contains("att", m) THEN "rush_attempts"
    ELSE IF Contains("passing", m) /\ Contains("yard", m) THEN "passing_yards"
    ELSE IF Contains("anytime", m) /\ Contains("td", m) THEN "anytime_td"
    ELSE "other"

YardageKeys ==
    {"receiving_yards", "rushing_yards", "passing_yards", "receptions", "rush_attempts"}

\* what pricing one side at this price raises, if anything: kelly_fraction
\* divides by abs(0.0), and int() refuses NaN and the infinities
SideRaises(odds) ==
    IF IsZero(odds) THEN "ZeroDivisionError"
    ELSE IF IsNaN(odds) THEN "ValueError"
    ELSE IF IsInf(odds) THEN "OverflowError"
    ELSE "none"

\* kcap: the alt ceiling when the text of the frame's columns holds "alt"
Kcap(columns, c) ==
    IF Contains("alt", ColumnsStr(columns)) THEN c.risk.kelly_cap_alt
    ELSE c.risk.kelly_cap_straight

\* the row eval_yardage appends for one side of one quote, priced
YardageRowOf(r, side, odds, a, pp, pr, edge_pct, kelly, c) ==
    [game_id |-> r.game_id, team |-> r.team, player |-> r.player,
     market |-> r.market, line |-> r.line,
     book_odds_american |-> odds, side |-> side,
     model_mean |-> RoundTo(a.mu, 100), model_sd |-> RoundTo(a.sd, 100),
     over_pct |-> RoundTo(pp.p_over, 10000),
     under_pct |-> RoundTo(pp.p_under, 10000),
     fair_odds_over |-> IF side = "Over" THEN pr.fair ELSE None,
     fair_odds_under |-> IF side = "Under" THEN pr.fair ELSE None,
     edge_pct |-> IF ~IsNone(edge_pct) THEN RoundTo(edge_pct, 100) ELSE None,
     kelly_fraction |-> RoundTo(kelly, 10000),
     side_prob |-> pr.p,
     decimal_odds |-> american_to_decimal(odds),
     recommendation |->
         LabelForSide(label(IF ~IsNone(edge_pct) THEN Div(edge_pct, Num(100))
                            ELSE None, c), side),
     notes |-> ""]

\* edge_pct, kcap and the capped kelly of one side
YardageSide(r, side, odds, a, pp, pr, columns, c) ==
    YardageRowOf(r, side, odds, a, pp, pr,
                 IF ~IsNone(pr.edge) THEN Mul(pr.edge, Num(100)) ELSE None,
                 PyMin(kelly_fraction(pr.p, odds), Kcap(columns, c)), c)

YardageRow(r, side, a, pp, columns, c) ==
    YardageSide(r, side, IF side = "Over" THEN r.odds_over ELSE r.odds_under, a, pp,
                price_row(side, pp.p_over, pp.p_under, r.odds_over, r.odds_under),
                columns, c)

YardageSides(r, a, pp, columns, c) ==
    <<YardageRow(r, "Over", a, pp, columns, c), YardageRow(r, "Under", a, pp, columns, c)>>

\* one pass of the loop of eval_yardage over an attached row, its market key
\* and adjusted (mu, sd) known: the rows it appends, or the exception it raises
YardageStepOf(r, mk, a, columns, c) ==
    IF mk \notin YardageKeys THEN [exc |-> "none", rows |-> <<>>]
    ELSE IF IsNone(a.mu) \/ IsNone(a.sd) THEN [exc |-> "none", rows |-> <<>>]
    ELSE IF SideRaises(r.odds_over) # "none"
         THEN [exc |-> SideRaises(r.odds_over), rows |-> <<>>]
    ELSE IF SideRaises(r.odds_under) # "none"
         THEN [exc |-> SideRaises(r.odds_under), rows |-> <<>>]
    ELSE [exc |-> "none",
          rows |-> YardageSides(r, a, yardage_probs(a.mu, a.sd, r.line), columns, c)]

YardageStep(r, columns, m, c) ==
    YardageStepOf(r, market_key(r.market), adjusted_mu_sd(r, m, c), columns, c)

RECURSIVE YardageLoop(_, _, _, _, _)
YardageAfter(s, rest, columns, m, c, acc) ==
    IF s.exc # "none" THEN [exc |-> s.exc, rows |-> <<>>]
    ELSE YardageLoop(rest, columns, m, c, acc \o s.rows)

\* the loop of eval_yardage: it ends at the first row that raises
YardageLoop(rows, columns, m, c, acc) ==
    IF Len(rows) = 0 THEN [exc |-> "none", rows |-> acc]
    ELSE YardageAfter(YardageStep(Head(rows), columns, m, c), Tail(rows),
                      columns, m, c, acc)

EvalColumns ==
    <<"game_id", "team", "player", "market", "line", "book_odds_american", "side",
      "model_mean", "model_sd", "over_pct", "under_pct", "fair_odds_over",
      "fair_odds_under", "edge_pct", "kelly_fraction", "side_prob", "decimal_odds",
      "recommendation", "notes">>

\* pd.DataFrame(rows), or the exception of the loop
EvalFrame(res, columns) ==
    IF res.exc # "none" THEN [exc |-> res.exc, df |-> NoFrame]
    ELSE [exc |-> "none",
          df |-> IF Len(res.rows) = 0 THEN NoFrame ELSE Frame(columns, res.rows)]

\* eval_yardage(df) = the frame it returns, or the exception it raises
eval_yardage(df, pri, cx, m, c) ==
    IF Empty(df) THEN [exc |-> "none", df |-> df]
    ELSE IF AttachRaises(pri, cx) THEN [exc |-> "KeyError", df |-> NoFrame]
    ELSE EvalFrame(YardageLoop([i \in 1..Len(df.rows) |-> AttachRow(df.rows[i], pri, cx)],
                               AttachColumns(df, pri, cx), m, c, <<>>),
                   EvalColumns)

\* the touchdown model: p_yes = 1 - exp(-lam_team * share), lam_team = 2.3 and
\* share = 0.18, to three decimals
PYesMille == 339

PYes == Q(PYesMille, 1000)

\* the row the touchdown loop appends for one quote
TdRowOf(r, edge_pct, kelly) ==
    [game_id |-> r.game_id, team |-> r.team, player |-> r.player,
     market |-> r.market, odds_yes |-> r.odds_yes, p_yes |-> RoundTo(PYes, 10000),
     fair_odds_yes |-> io_prob_to_american(PYes),
     edge_yes_pct |-> RoundTo(edge_pct, 100),
     kelly_yes |-> RoundTo(kelly, 10000),
     recommendation |-> IF Ge(edge_pct, Num(1)) THEN "Yes" ELSE "Pass"]

\* edge_pct = (p_yes - imp) / imp * 100
TdEdgePct(imp) == Mul(Div(Sub(PYes, imp), imp), Num(100))

TdRow(r) ==
    TdRowOf(r, TdEdgePct(american_to_implied(r.odds_yes)),
            kelly_fraction(PYes, r.odds_yes))

\* the touchdown loop: it ends at the first row that raises
RECURSIVE TdLoop(_, _)
TdLoop(rows, acc) ==
    IF Len(rows) = 0 THEN [exc |-> "none", rows |-> acc]
    ELSE IF SideRaises(Head(rows).odds_yes) # "none"
         THEN [exc |-> SideRaises(Head(rows).odds_yes), rows |-> <<>>]
    ELSE TdLoop(Tail(rows), Append(acc, TdRow(Head(rows))))

TdColumns ==
    <<"game_id", "team", "player", "market", "odds_yes", "p_yes", "fair_odds_yes",
      "edge_yes_pct", "kelly_yes", "recommendation">>

(***************************************************************************)
(* The inputs of the package run.                                          *)
(***************************************************************************)
PkgCfg ==
    [risk |-> [kelly_cap_straight |-> Q(5, 100), kelly_cap_alt |-> Q(2, 100),
               edge_green |-> Q(4, 100), edge_amber |-> Q(1, 100)],
     volatility |-> [wind_threshold_mph |-> Num(15), wind_sd_widen |-> Q(10, 100),
                     cold_threshold_f |-> Num(32), cold_sd_widen |-> Q(5, 100),
                     widen_sd_if_pressure_top10 |-> Q(10, 100),
                     widen_sd_if_qb_lowtier |-> Q(15, 100)]]

QuoteColumns ==
    <<"game_id", "team", "player", "market", "line", "odds_over", "odds_under">>

PriorColumns == <<"player", "team", "market", "mean", "sd">>

Prior(player, team, market, mean, sd) ==
    [player |-> player, team |-> team, market |-> market, mean |-> mean, sd |-> sd]

\* data/priors.csv: A has a full prior, B a prior without sd, M one without
\* mean, QB a passing prior, Z a prior of sd 0; C has none
PriorsFile ==
    Frame(PriorColumns,
          <<Prior("A", "KC", "receiving_yards", Num(60), Num(20)),
            Prior("A", "KC", "longest_reception", Num(25), Num(10)),
            Prior("B", "KC", "receiving_yards", Num(60), NaN),
            Prior("M", "KC", "receiving_yards", NaN, Num(20)),
            Prior("QB", "NYJ", "passing_yards", Num(240), Num(40)),
            Prior("Z", "KC", "receiving_yards", Num(60), Num(0))>>)

WeatherRows ==
    [g1 |-> [temp_f |-> Num(55), wind_mph |-> Num(0)],
     g2 |-> [temp_f |-> Num(30), wind_mph |-> Num(20)]]

Ctx0 ==
    [injuries |-> [QB |-> [snap_adj |-> Num(1), share_adj |-> Q(9, 10)]],
     schedule |-> [g1 |-> [home |-> "KC", away |-> "DEN"],
                   g2 |-> [home |-> "BUF", away |-> "NYJ"]],
     team_rates_columns |-> <<"team_ctx", "plays_per_game">>,
     weather |-> Frame(<<"game_id", "temp_f", "wind_mph">>, WeatherRows)]

\* the same, the weather file carrying one more column
CtxAltitude ==
    [Ctx0 EXCEPT !.weather = Frame(<<"game_id", "temp_f", "wind_mph", "altitude">>,
                                   WeatherRows)]

\* every feed unavailable
NeutralMods ==
    [pace |-> <<>>, proe |-> <<>>, off_epa |-> <<>>,
     top10_pressure |-> {}, low_tier_qb |-> {}]

FeedMods ==
    [pace |-> [KC |-> Q(21, 20), NYJ |-> Q(19, 20)], proe |-> [KC |-> Q(21, 20)],
     off_epa |-> <<>>, top10_pressure |-> {}, low_tier_qb |-> {"QB"}]

Quote(game_id, team, player, market, line, odds_over, odds_under) ==
    [game_id |-> game_id, team |-> team, player |-> player, market |-> market,
     line |-> line, odds_over |-> odds_over, odds_under |-> odds_under]

\* the yardage quotes a batch draws from: a well-formed one and its variations
YardQuotes ==
    {Quote("g1", "KC", "A", "receiving_yards", Num(50), Num(-110), Num(-110)),
     Quote("g1", "KC", "A", "receiving_yards", Num(60), Num(105), Num(-125)),
     Quote("g1", "KC", "A", "receiving_yards", Num(50), Num(0), Num(-110)),
     Quote("g1", "KC", "A", "receiving_yards", Num(50), NaN, Num(-110)),
     Quote("g1", "KC", "A", "receiving_yards", Num(50), Num(-110), NaN),
     Quote("g1", "KC", "B", "receiving_yards", Num(50), Num(-110), Num(-110)),
     Quote("g1", "KC", "C", "receiving_yards", Num(50), Num(-110), Num(-110)),
     Quote("g1", "KC", "M", "receiving_yards", Num(50), Num(-110), Num(-110)),
     Quote("g1", "KC", "A", "longest_reception", Num(20), Num(-110), Num(-110)),
     Quote("g2", "NYJ", "QB", "passing_yards", Num(220), Num(120), Num(-140)),
     Quote("g1", "KC", "Z", "receiving_yards", Num(50), Num(-110), Num(-110))}

TdQuote(game_id, team, player, odds_yes) ==
    [game_id |-> game_id, team |-> team, player |-> player,
     market |-> "anytime_td", odds_yes |-> odds_yes]

TdQuotes ==
    {TdQuote("g1", "KC", "A", Num(-110)), TdQuote("g1", "KC", "A", Num(300)),
     TdQuote("g1", "KC", "A", Num(0)), TdQuote("g1", "KC", "A", NaN)}

TdQuoteColumns == <<"game_id", "team", "player", "market", "odds_yes">>

\* how many quotes one batch holds at most, over the three odds files
MaxRows == 2

PkgEntries ==
    ({"straight", "alt"} \X YardQuotes) \cup ({"td"} \X TdQuotes)

Batches(S) == UNION {[1..k -> S] : k \in 0..MaxRows}

\* the quotes of one odds file, in file order
Seconds(sel) == [i \in 1..Len(sel) |-> sel[i][2]]

RowsOf(batch, tbl) == Seconds(SelectSeq(batch, LAMBDA e : e[1] = tbl))

\* the frame read_csv returns for an odds file with these columns and quotes
FileFrame(columns, rows) == IF Len(rows) = 0 THEN NoFrame ELSE Frame(columns, rows)

\* the run's surroundings: one usual set-up and its variations, one at a time
PkgSetups ==
    {[priors |-> PriorsFile, ctx |-> Ctx0, mods |-> NeutralMods, alt_columns |-> QuoteColumns],
     [priors |-> PriorsFile, ctx |-> Ctx0, mods |-> NeutralMods,
      alt_columns |-> Append(QuoteColumns, "alt_line")],
     [priors |-> PriorsFile, ctx |-> CtxAltitude, mods |-> NeutralMods,
      alt_columns |-> QuoteColumns],
     [priors |-> PriorsFile, ctx |-> Ctx0, mods |-> FeedMods, alt_columns |-> QuoteColumns],
     [priors |-> NoFrame, ctx |-> Ctx0, mods |-> NeutralMods, alt_columns |-> QuoteColumns]}

(***************************************************************************)
(* The package run as a state machine: run() of the package core.py.       *)
(***************************************************************************)
PkgIdle ==
    /\ cfg = <<>> /\ priors = NoFrame /\ ctx = <<>> /\ mods = <<>>
    /\ straight = NoFrame /\ alt = NoFrame /\ td = NoFrame
    /\ pc = "idle" /\ exc = "none"
    /\ straight_eval = NoFrame /\ alt_eval = NoFrame /\ td_eval = NoFrame
    /\ written = {}

OddsIdle == call = "idle" /\ arg = None /\ ret = [p |-> None, back |-> None]

SlateIdle == odds_df = NoFrame /\ feeds = <<>> /\ merged = NoFrame /\ final = NoFrame

ParlayIdle == pred_df = NoFrame /\ outs = <<>>

FeedIdle == fetched = <<>> /\ tries = <<>>

\* the inputs as read at the top of run(), load_feed_mods done
InitPkg ==
    /\ OddsIdle
    /\ SlateIdle
    /\ ParlayIdle
    /\ FeedIdle
    /\ cfg = PkgCfg
    /\ \E s \in PkgSetups, b \in Batches(PkgEntries) :
          /\ priors = s.priors
          /\ ctx = s.ctx
          /\ mods = s.mods
          /\ straight = FileFrame(QuoteColumns, RowsOf(b, "straight"))
          /\ alt = FileFrame(s.alt_columns, RowsOf(b, "alt"))
          /\ td = FileFrame(TdQuoteColumns, RowsOf(b, "td"))
    /\ pc = "start"
    /\ exc = "none"
    /\ straight_eval = NoFrame
    /\ alt_eval = NoFrame
    /\ td_eval = NoFrame
    /\ written = {}

\* straight_eval = eval_yardage(straight)
EvalStraight ==
    /\ pc = "start"
    /\ \E res \in {eval_yardage(straight, priors, ctx, mods, cfg)} :
          /\ exc' = res.exc
          /\ pc' = IF res.exc = "none" THEN "straight_done" ELSE "raised"
          /\ straight_eval' = res.df
    /\ UNCHANGED <<oddsVars, slateVars, parlayVars, feedVars, cfg, priors, ctx, mods, straight, alt, td,
                   alt_eval, td_eval, written>>

\* alt_eval = eval_yardage(alt)
EvalAlt ==
    /\ pc = "straight_done"
    /\ \E res \in {eval_yardage(alt, priors, ctx, mods, cfg)} :
          /\ exc' = res.exc
          /\ pc' = IF res.exc = "none" THEN "alt_done" ELSE "raised"
          /\ alt_eval' = res.df
    /\ UNCHANGED <<oddsVars, slateVars, parlayVars, feedVars, cfg, priors, ctx, mods, straight, alt, td,
                   straight_eval, td_eval, written>>

\* the touchdown loop
EvalTd ==
    /\ pc = "alt_done"
    /\ \E res \in {EvalFrame(IF Empty(td) THEN [exc |-> "none", rows |-> <<>>]
                              ELSE TdLoop(td.rows, <<>>), TdColumns)} :
          /\ exc' = res.exc
          /\ pc' = IF res.exc = "none" THEN "td_done" ELSE "raised"
          /\ td_eval' = res.df
    /\ UNCHANGED <<oddsVars, slateVars, parlayVars, feedVars, cfg, priors, ctx, mods, straight, alt, td,
                   straight_eval, alt_eval, written>>

\* the output files: one per frame that is not empty, and top_edges.csv when
\* there is one at least (the workbook is best effort and left out)
WriteOutputs ==
    /\ pc = "td_done"
    /\ \E files \in {(IF Empty(straight_eval) THEN {} ELSE {"straight_eval.csv"})
                       \cup (IF Empty(alt_eval) THEN {} ELSE {"alt_eval.csv"})
                       \cup (IF Empty(td_eval) THEN {} ELSE {"td_eval.csv"})} :
          written' = files \cup (IF files = {} THEN {} ELSE {"top_edges.csv"})
    /\ pc' = "done"
    /\ UNCHANGED <<oddsVars, slateVars, parlayVars, feedVars, cfg, priors, ctx, mods, straight, alt, td, exc,
                   straight_eval, alt_eval, td_eval>>

Next ==
    \/ EvalStraight
    \/ EvalAlt
    \/ EvalTd
    \/ WriteOutputs

Spec == InitPkg /\ [][Next]_vars

(***************************************************************************)
(* The odds-math harness: one conversion applied to one price.             *)
(***************************************************************************)
MaxOdds == 150

\* the prices at which the clamp of io.prob_to_american starts to bite:
\* 100 / (o + 100) < 1e-6 from o = 99999901 on
ClampEdge == 100 * ClampDen - 100

OddsInputs ==
    {Num(o) : o \in -MaxOdds..MaxOdds}
    \cup {Num(s * (ClampEdge + k)) : s \in {-1, 1}, k \in -1..3}
    \cup {NaN, PosInf, NegInf, None}

NoRet == [p |-> None, back |-> None]

InitOdds ==
    /\ PkgIdle
    /\ SlateIdle
    /\ ParlayIdle
    /\ FeedIdle
    /\ call = "none"
    /\ arg \in OddsInputs
    /\ ret = NoRet

\* core.american_to_prob(arg)
CallAmericanToProb ==
    /\ call = "none"
    /\ call' = "american_to_prob"
    /\ ret' = [p |-> american_to_prob(arg), back |-> None]
    /\ UNCHANGED <<arg, pkgVars, slateVars, parlayVars, feedVars>>

\* io.american_to_implied(arg), for a float argument
CallAmericanToImplied ==
    /\ call = "none"
    /\ ~IsNone(arg)
    /\ call' = "american_to_implied"
    /\ ret' = [p |-> american_to_implied(arg), back |-> None]
    /\ UNCHANGED <<arg, pkgVars, slateVars, parlayVars, feedVars>>

\* core.prob_to_american(core.american_to_prob(arg))
CallRoundTripCore ==
    /\ call = "none"
    /\ call' = "roundtrip_core"
    /\ \E p \in {american_to_prob(arg)} :
          ret' = [p |-> p, back |-> prob_to_american(p)]
    /\ UNCHANGED <<arg, pkgVars, slateVars, parlayVars, feedVars>>

\* io.prob_to_american(io.american_to_implied(arg)), where it does not raise
CallRoundTripIo ==
    /\ call = "none"
    /\ ~IsNone(arg)
    /\ ~IsNaN(american_to_implied(arg))
    /\ call' = "roundtrip_io"
    /\ \E p \in {american_to_implied(arg)} :
          ret' = [p |-> p, back |-> io_prob_to_american(p)]
    /\ UNCHANGED <<arg, pkgVars, slateVars, parlayVars, feedVars>>

NextOdds ==
    \/ CallAmericanToProb
    \/ CallAmericanToImplied
    \/ CallRoundTripCore
    \/ CallRoundTripIo

SpecOdds == InitOdds /\ [][NextOdds]_vars

(***************************************************************************)
(* EdgeSizer of src/model/core.py: expected value, Kelly, recommendation.  *)
(***************************************************************************)
\* the profit per unit staked at an American price that is not 0
ProfitOf(price_american) ==
    IF Gt(price_american, Num(0)) THEN Div(price_american, Num(100))
    ELSE Div(Num(100), FAbs(price_american))

\* p * prof - (1 - p) * 1.0
EvOf(p, prof) == Sub(Mul(p, prof), Sub(Num(1), p))

\* ev_from_prob(price_american, p), for a price that is not 0 (100.0 / abs(0.0)
\* raises ZeroDivisionError: run decides that case)
ev_from_prob(price_american, p) ==
    IF IsNone(price_american) \/ IsNone(p) THEN None
    ELSE EvOf(p, ProfitOf(price_american))

\* kelly_fraction(price_american, p) of src/model/core.py, for a price that is
\* not 0
core_kelly_fraction(price_american, p) ==
    IF IsNone(price_american) \/ IsNone(p) \/ Le(p, Num(0)) \/ Ge(p, Num(1)) THEN None
    ELSE KellyOfB(p, ProfitOf(price_american))

\* min(cap_straight, kelly or 0.0)
CappedKelly(cap_straight, kelly) ==
    PyMin(cap_straight, IF IsNone(kelly) \/ IsZero(kelly) THEN Num(0) ELSE kelly)

\* the text f"{bet} ({tag})" of reco_row, kept as its three parts
RecoOfStrict(side, line, edge, edge_green, edge_amber) ==
    [side |-> side, line |-> line,
     tag |-> IF Gt(edge, edge_green) THEN "GREEN"
             ELSE IF Ge(edge, edge_amber) THEN "AMBER" ELSE "RED"]

RecoOf(side, line, edge, edge_green, edge_amber) ==
    [side |-> side, line |-> line,
     tag |-> IF Ge(edge, edge_green) THEN "GREEN"
             ELSE IF Ge(edge, edge_amber) THEN "AMBER" ELSE "RED"]

RecoSidesOverOnTie(eo, eu, line, edge_green, edge_amber) ==
    IF Ge(eo, eu) THEN RecoOf("Over", line, eo, edge_green, edge_amber)
    ELSE RecoOf("Under", line, eu, edge_green, edge_amber)

\* the side with the higher edge: Over only when eo > eu
RecoSides(eo, eu, line, edge_green, edge_amber) ==
    IF Gt(eo, eu) THEN RecoOf("Over", line, eo, edge_green, edge_amber)
    ELSE RecoOf("Under", line, eu, edge_green, edge_amber)

\* the text "Pass" of reco_row
RecoPass == [side |-> "Pass", line |-> None, tag |-> ""]

\* reco_row(r), of r["edge_over"], r["edge_under"], r["line"] and the thresholds
reco_row(eo, eu, line, edge_green, edge_amber) ==
    IF IsNone(eo) /\ IsNone(eu) THEN RecoPass
    ELSE RecoSides(IF IsNone(eo) THEN Num(-9) ELSE eo,
                   IF IsNone(eu) THEN Num(-9) ELSE eu, line, edge_green, edge_amber)

(***************************************************************************)
(* The tiering harness: reco_row and label applied to one pair of edges.   *)
(***************************************************************************)
\* the edges and thresholds are drawn in hundredths, from -2 up to TierGrid
TierGrid == 6

TierEdges == {Q(k, 100) : k \in -2..TierGrid} \cup {NaN, None}

\* (edge_green, edge_amber): the shipped pair, an equal pair, a pair with
\* amber at 0 and one in the wrong order
TierThresholds ==
    {<<Q(4, 100), Q(1, 100)>>, <<Q(2, 100), Q(2, 100)>>,
     <<Q(5, 100), Num(0)>>, <<Q(1, 100), Q(4, 100)>>}

TierInputs ==
    {[eo |-> eo, eu |-> eu, line |-> Q(101, 2), edge_green |-> t[1], edge_amber |-> t[2]] :
        eo \in TierEdges, eu \in TierEdges, t \in TierThresholds}

InitTier ==
    /\ PkgIdle
    /\ SlateIdle
    /\ ParlayIdle
    /\ FeedIdle
    /\ call = "none"
    /\ arg \in TierInputs
    /\ ret = NoRet

\* reco_row on a row with these two edges
CallRecoRow ==
    /\ call = "none"
    /\ call' = "reco_row"
    /\ ret' = reco_row(arg.eo, arg.eu, arg.line, arg.edge_green, arg.edge_amber)
    /\ UNCHANGED <<arg, pkgVars, slateVars, parlayVars, feedVars>>

\* label(edge, cfg) on the Over edge
CallLabel ==
    /\ call = "none"
    /\ call' = "label"
    /\ ret' = label(arg.eo, [risk |-> [edge_green |-> arg.edge_green,
                                       edge_amber |-> arg.edge_amber]])
    /\ UNCHANGED <<arg, pkgVars, slateVars, parlayVars, feedVars>>

NextTier ==
    \/ CallRecoRow
    \/ CallLabel

SpecTier == InitTier /\ [][NextTier]_vars

(***************************************************************************)
(* The slate run: run() of src/model/core.py                               *)
(***************************************************************************)
Range(f) == {f[i] : i \in DOMAIN f}

\* m.replace(" ", "_")
RECURSIVE Underscored(_)
Underscored(m) ==
    IF Len(m) = 0 THEN ""
    ELSE (IF SubSeq(m, 1, 1) = " " THEN "_" ELSE SubSeq(m, 1, 1))
           \o Underscored(SubSeq(m, 2, Len(m)))

\* m.replace("rec_", "receptions_")
RECURSIVE ReplaceRec(_)
ReplaceRec(m) ==
    IF Len(m) < 4 THEN m
    ELSE IF SubSeq(m, 1, 4) = "rec_" THEN "receptions_" \o ReplaceRec(SubSeq(m, 5, Len(m)))
    ELSE SubSeq(m, 1, 1) \o ReplaceRec(SubSeq(m, 2, Len(m)))

StartsWithRec(m) == Len(m) >= 4 /\ SubSeq(m, 1, 4) = "rec_"

\* normalize_market(m), for a market name that is trimmed and in lower case
\* already (strip and lower leave it as it is)
RecExpanded(m) == IF StartsWithRec(m) THEN ReplaceRec(m) ELSE m

normalize_market(m) == RecExpanded(Underscored(m))

\* sd_map: the configured defaults, or the built-in ones
sd_map(c) ==
    [receiving_yards |-> Get(c.defaults.sd, "receiving_yards", Num(28)),
     receptions |-> Get(c.defaults.sd, "receptions", Q(16, 10)),
     rushing_yards |-> Get(c.defaults.sd, "rushing_yards", Num(22)),
     rush_attempts |-> Get(c.defaults.sd, "rush_attempts", Num(4)),
     passing_yards |-> Get(c.defaults.sd, "passing_yards", Num(45))]

\* default_sd_for_market(m)
default_sd_for_market(m, sdm) ==
    IF Contains("recep", m) THEN sdm.receptions
    ELSE IF Contains("rush", m) /\ Contains("att", m) THEN sdm.rush_attempts
    ELSE IF Contains("rush", m) THEN sdm.rushing_yards
    ELSE IF Contains("pass", m) THEN sdm.passing_yards
    ELSE sdm.receiving_yards

\* the priors rows a quote merges with on (player, market, team), the markets
\* of both files normalised; the priors file holds at most one row per key
SlatePriorMatches(player, team, market, pri) ==
    {i \in 1..Len(pri.rows) :
        /\ pri.rows[i].player = player
        /\ normalize_market(pri.rows[i].market) = market
        /\ pri.rows[i].team = team}

SlatePriorAt(S, pri) ==
    IF S = {} THEN [mean |-> NaN, sd |-> NaN] ELSE pri.rows[CHOOSE i \in S : TRUE]

\* one row of the left merge, with model_mean and model_sd filled in
SlateMergedRow(r, market, pr, sdm) ==
    [game |-> r.game, team |-> r.team, player |-> r.player, market |-> market,
     line |-> r.line, over_odds |-> r.over_odds, under_odds |-> r.under_odds,
     qb_lowtier_flag |-> r.qb_lowtier_flag,
     pressure_top10_flag |-> r.pressure_top10_flag,
     prior_mean |-> pr.mean, prior_sd |-> pr.sd,
     model_mean |-> pr.mean,
     model_sd |-> IF ~IsNaN(pr.sd) THEN pr.sd ELSE default_sd_for_market(market, sdm)]

SlateMergeOf(r, market, pri, sdm) ==
    SlateMergedRow(r, market,
                   SlatePriorAt(SlatePriorMatches(r.player, r.team, market, pri), pri), sdm)

\* odds.merge(priors, how="left") and the two model columns
SlateMerge(df, pri, c) ==
    Frame(df.columns \o <<"prior_mean", "prior_sd", "model_mean", "model_sd">>,
          [i \in 1..Len(df.rows) |->
              SlateMergeOf(df.rows[i], normalize_market(df.rows[i].market), pri, sd_map(c))])

\* the columns of the frame run() writes
OutCols ==
    <<"game", "team", "player", "market", "line", "over_odds", "under_odds",
      "model_mean", "model_sd", "p_over", "p_under", "fair_odds_over",
      "fair_odds_under", "edge_over", "edge_under", "kelly_over", "kelly_under",
      "bet_reco", "notes">>

\* try_read_csv failed
NoFeed == [read |-> FALSE, columns |-> <<>>, rows |-> <<>>]

\* a feed that was read: its columns, and per row the team and the value of
\* the first column that names the signal
Feed(columns, rows) == [read |-> TRUE, columns |-> columns, rows |-> rows]

\* the feed is read and has a team column and a column naming the signal
FeedUsable(feed, words) ==
    /\ feed.read
    /\ \E i \in 1..Len(feed.columns) :
          feed.columns[i] \in {"team", "posteam", "abbr", "team_abbr"}
    /\ \E i \in 1..Len(feed.columns) : \E w \in words : Contains(w, feed.columns[i])

\* the feed rows dropna() keeps
FeedKept(feed) == SelectSeq(feed.rows, LAMBDA fr : ~IsNaN(fr.val))

\* series.rank(pct=True) of v: the average rank of the ties over the count
RankPct(v, kept) ==
    Q(2 * Cardinality({i \in 1..Len(kept) : Lt(kept[i].val, v)})
        + Cardinality({i \in 1..Len(kept) : kept[i].val = v}) + 1,
      2 * Len(kept))

\* normalize_rank at v
NormAt(v, kept) == Mul(Sub(RankPct(v, kept), Q(1, 2)), Num(2))

NormOfTeam(S, kept) ==
    IF S = {} THEN NaN ELSE NormAt(kept[CHOOSE i \in S : TRUE].val, kept)

\* the epa_norm or pace_norm the left merge gives a team (NaN without a feed
\* row); a feed holds at most one row per team
FeedNorm(team, kept) ==
    NormOfTeam({i \in 1..Len(kept) : kept[i].team = team}, kept)

\* x.fillna(0.0)
FillNa0(x) == IF IsNaN(x) THEN Num(0) ELSE x

\* bump.clip(lower=0.90, upper=1.15)
ClipBump(bump) ==
    IF Lt(bump, Q(90, 100)) THEN Q(90, 100)
    ELSE IF Gt(bump, Q(115, 100)) THEN Q(115, 100) ELSE bump

Bump(epa_norm, pace_norm) ==
    ClipBump(Add(Add(Num(1), Mul(Q(3, 100), FillNa0(epa_norm))),
                 Mul(Q(2, 100), FillNa0(pace_norm))))

\* is_yards
IsYards(market) ==
    Contains("yd", market) \/ Contains("yard", market) \/ Contains("rec", market)

AdjustedRow(r, epa_norm, pace_norm) ==
    [game |-> r.game, team |-> r.team, player |-> r.player, market |-> r.market,
     line |-> r.line, over_odds |-> r.over_odds, under_odds |-> r.under_odds,
     qb_lowtier_flag |-> r.qb_lowtier_flag,
     pressure_top10_flag |-> r.pressure_top10_flag,
     prior_mean |-> r.prior_mean, prior_sd |-> r.prior_sd,
     model_mean |-> IF IsYards(r.market)
                    THEN Mul(r.model_mean, Bump(epa_norm, pace_norm)) ELSE r.model_mean,
     model_sd |-> r.model_sd,
     epa_norm |-> epa_norm, pace_norm |-> pace_norm]

\* apply_external_adjustments(df, feeds): the adjusted frame, or the
\* AttributeError of adj.get(name, 0.0).fillna(0.0) when a feed has not put its
\* column into the frame
apply_external_adjustments(df, fd) ==
    IF ~(FeedUsable(fd.team_epa, {"epa"}) /\ FeedUsable(fd.team_pace, {"pace", "plays"})
         /\ "team" \in Range(df.columns))
    THEN [exc |-> "AttributeError", df |-> df]
    ELSE [exc |-> "none",
          df |-> Frame(df.columns \o <<"team_feed", "team_epa_val", "epa_norm",
                                       "team_feed2", "team_pace_val", "pace_norm">>,
                       [i \in 1..Len(df.rows) |->
                           AdjustedRow(df.rows[i],
                                       FeedNorm(df.rows[i].team, FeedKept(fd.team_epa)),
                                       FeedNorm(df.rows[i].team, FeedKept(fd.team_pace)))])]

\* model_sd after one widening knob: the knob is configured, the flag column is
\* in the frame and the row's flag is 1
Widened(sd, knob, flag, columns, r, vol) ==
    IF knob \in DOMAIN vol /\ flag \in Range(columns) /\ r[flag] = 1
    THEN Mul(sd, Add(Num(1), vol[knob])) ELSE sd

WidenedSd(r, columns, vol) ==
    Widened(Widened(r.model_sd, "widen_sd_if_pressure_top10", "pressure_top10_flag",
                    columns, r, vol),
            "widen_sd_if_qb_lowtier", "qb_lowtier_flag", columns, r, vol)

\* model_sd.clip(lower=1e-6)
ClipSd(sd) == IF Lt(sd, Q(1, SdFloorDen)) THEN Q(1, SdFloorDen) ELSE sd

\* mk_notes(r)
JoinNotes(a, b) == IF a = "" THEN b ELSE IF b = "" THEN a ELSE a \o "," \o b

mk_notes(r) ==
    JoinNotes(JoinNotes(IF IsNaN(r.over_odds) \/ IsNaN(r.under_odds)
                        THEN "no_book_price" ELSE "",
                        IF Gt(r.epa_norm, Q(1, 2)) THEN "strong_team_epa" ELSE ""),
              IF Gt(r.pace_norm, Q(1, 2)) THEN "fast_pace" ELSE "")

\* the output row of one quote, its edges given
SlateRowOf(r, sd, pp, eo, eu, c) ==
    [game |-> r.game, team |-> r.team, player |-> r.player, market |-> r.market,
     line |-> r.line, over_odds |-> r.over_odds, under_odds |-> r.under_odds,
     model_mean |-> r.model_mean, model_sd |-> sd,
     p_over |-> pp.p_over, p_under |-> pp.p_under,
     fair_odds_over |-> prob_to_american(pp.p_over),
     fair_odds_under |-> prob_to_american(pp.p_under),
     edge_over |-> eo, edge_under |-> eu,
     kelly_over |-> CappedKelly(c.risk.kelly_cap_straight,
                                core_kelly_fraction(r.over_odds, pp.p_over)),
     kelly_under |-> CappedKelly(c.risk.kelly_cap_straight,
                                 core_kelly_fraction(r.under_odds, pp.p_under)),
     bet_reco |-> reco_row(eo, eu, r.line, c.risk.edge_green, c.risk.edge_amber),
     notes |-> mk_notes(r)]

\* the probabilities and the edges of one quote
SlateProbs(r, sd, pp, c) ==
    SlateRowOf(r, sd, pp, ev_from_prob(r.over_odds, pp.p_over),
               ev_from_prob(r.under_odds, pp.p_under), c)

SlateSd(r, sd, c) ==
    SlateProbs(r, sd, OverUnder(NormCdf(Div(Sub(r.line, r.model_mean), sd))), c)

SlateRow(r, columns, c) == SlateSd(r, ClipSd(WidenedSd(r, columns, c.volatility)), c)

\* steps 3 to 8 of run(): the priced rows, or the ZeroDivisionError of
\* 100.0 / abs(0.0) in ev_from_prob at a price of 0
PriceSlateOf(df, c) ==
    IF \E i \in 1..Len(df.rows) :
          IsZero(df.rows[i].over_odds) \/ IsZero(df.rows[i].under_odds)
    THEN [exc |-> "ZeroDivisionError", df |-> df]
    ELSE [exc |-> "none",
          df |-> Frame(df.columns \o <<"p_over", "p_under", "fair_odds_over",
                                       "fair_odds_under", "edge_over", "edge_under",
                                       "kelly_over", "kelly_under", "bet_reco", "notes">>,
                       [i \in 1..Len(df.rows) |-> SlateRow(df.rows[i], df.columns, c)])]

(***************************************************************************)
(* The inputs of the slate run.                                            *)
(***************************************************************************)
SlateCfg ==
    [risk |-> [kelly_cap_straight |-> Q(5, 100), edge_green |-> Q(4, 100),
               edge_amber |-> Q(1, 100)],
     defaults |-> [sd |-> [receiving_yards |-> Num(25)]],
     volatility |-> [widen_sd_if_pressure_top10 |-> Q(10, 100),
                     widen_sd_if_qb_lowtier |-> Q(15, 100)]]

SlateColumns ==
    <<"game", "team", "player", "market", "line", "over_odds", "under_odds">>

SlateQuote(game, team, player, market, line, over_odds, under_odds, qb_lowtier_flag) ==
    [game |-> game, team |-> team, player |-> player, market |-> market,
     line |-> line, over_odds |-> over_odds, under_odds |-> under_odds,
     qb_lowtier_flag |-> qb_lowtier_flag, pressure_top10_flag |-> 0]

\* the quotes a slate draws from: a well-formed one and its variations (a
\* line at the prior mean, a price of 0, a price missing on either side and
\* on both, a prior without sd, no prior, a prior without mean, a market spelt
\* with "rec_", a flagged quarterback, a flagged receiver)
SlateQuotes ==
    {SlateQuote("g1", "KC", "A", "receiving_yards", Num(50), Num(-110), Num(-110), 0),
     SlateQuote("g1", "DEN", "D", "receiving_yards", Num(60), Num(-110), Num(-110), 0),
     SlateQuote("g1", "KC", "A", "receiving_yards", Num(50), Num(0), Num(-110), 0),
     SlateQuote("g1", "KC", "A", "receiving_yards", Num(50), NaN, Num(-110), 0),
     SlateQuote("g1", "KC", "A", "receiving_yards", Num(50), Num(-110), NaN, 0),
     SlateQuote("g1", "KC", "A", "receiving_yards", Num(50), NaN, NaN, 0),
     SlateQuote("g1", "KC", "B", "receiving_yards", Num(50), Num(-110), Num(-110), 0),
     SlateQuote("g1", "KC", "C", "receiving_yards", Num(50), Num(-110), Num(-110), 0),
     SlateQuote("g1", "KC", "M", "receiving_yards", Num(50), Num(-110), Num(-110), 0),
     SlateQuote("g1", "KC", "R", "rec_long", Num(20), Num(120), Num(-140), 0),
     SlateQuote("g2", "NYJ", "QB", "passing_yards", Num(220), Num(120), Num(-140), 1),
     SlateQuote("g1", "KC", "A", "receiving_yards", Num(50), Num(-110), Num(-110), 1)}

\* data/priors.csv of the slate run: the package's file, with a prior for D (a
\* team no feed lists) and one for R
SlatePriorsFile ==
    Frame(PriorColumns,
          PriorsFile.rows
            \o <<Prior("D", "DEN", "receiving_yards", Num(60), Num(20)),
                 Prior("R", "KC", "receptions_long", Num(25), NaN)>>)

FeedRow(team, val) == [team |-> team, val |-> val]

EpaFeed ==
    Feed(<<"team", "off_epa">>,
         <<FeedRow("KC", Q(15, 100)), FeedRow("NYJ", Q(-5, 100)), FeedRow("BUF", Q(5, 100))>>)

PaceFeed ==
    Feed(<<"posteam", "plays_per_game">>,
         <<FeedRow("KC", Num(66)), FeedRow("NYJ", Num(60)), FeedRow("BUF", NaN)>>)

\* what the two feeds answer: both, one of them unread, one without a column
\* that names its signal
SlateFeeds ==
    {[team_epa |-> EpaFeed, team_pace |-> PaceFeed],
     [team_epa |-> NoFeed, team_pace |-> PaceFeed],
     [team_epa |-> EpaFeed, team_pace |-> NoFeed],
     [team_epa |-> EpaFeed, team_pace |-> Feed(<<"posteam", "tempo">>, PaceFeed.rows)]}

\* how many quotes odds.csv holds at most
MaxSlate == 2

Slates == UNION {[1..k -> SlateQuotes] : k \in 0..MaxSlate}

(***************************************************************************)
(* The slate run as a state machine.                                       *)
(***************************************************************************)
PkgRestIdle ==
    /\ ctx = <<>> /\ mods = <<>>
    /\ straight = NoFrame /\ alt = NoFrame /\ td = NoFrame
    /\ straight_eval = NoFrame /\ alt_eval = NoFrame /\ td_eval = NoFrame

\* the files as read at the top of run()
InitSlate ==
    /\ OddsIdle
    /\ ParlayIdle
    /\ FeedIdle
    /\ PkgRestIdle
    /\ cfg = SlateCfg
    /\ priors \in {SlatePriorsFile, NoFrame}
    /\ \E q \in Slates, flagged \in BOOLEAN :
          odds_df = FileFrame(IF flagged THEN Append(SlateColumns, "qb_lowtier_flag")
                              ELSE SlateColumns, q)
    /\ feeds \in SlateFeeds
    /\ merged = NoFrame
    /\ final = NoFrame
    /\ pc = "start"
    /\ exc = "none"
    /\ written = {}

\* the empty check and the merge of the priors into the quotes
LoadAndMerge ==
    /\ pc = "start"
    /\ IF Empty(priors) \/ Empty(odds_df)
       THEN /\ final' = Frame(OutCols, <<>>)
            /\ written' = {"model_output.csv"}
            /\ pc' = "done"
            /\ UNCHANGED merged
       ELSE /\ merged' = SlateMerge(odds_df, priors, cfg)
            /\ pc' = "merged"
            /\ UNCHANGED <<final, written>>
    /\ UNCHANGED <<oddsVars, parlayVars, feedVars, pkgRest, cfg, priors, exc, odds_df, feeds>>

\* merged = apply_external_adjustments(merged, feeds)
ApplyExternalAdjustments ==
    /\ pc = "merged"
    /\ \E res \in {apply_external_adjustments(merged, feeds)} :
          /\ exc' = res.exc
          /\ pc' = IF res.exc = "none" THEN "adjusted" ELSE "raised"
          /\ merged' = res.df
    /\ UNCHANGED <<oddsVars, parlayVars, feedVars, pkgRest, cfg, priors, written, odds_df, feeds, final>>

\* widening, probabilities, fair odds, edges, Kelly, recommendation, notes
PriceSlate ==
    /\ pc = "adjusted"
    /\ \E res \in {PriceSlateOf(merged, cfg)} :
          /\ exc' = res.exc
          /\ pc' = IF res.exc = "none" THEN "priced" ELSE "raised"
          /\ merged' = res.df
    /\ UNCHANGED <<oddsVars, parlayVars, feedVars, pkgRest, cfg, priors, written, odds_df, feeds, final>>

\* final = merged[out_cols], written to model_output.csv (the workbook is best
\* effort and left out)
SaveOutputs ==
    /\ pc = "priced"
    /\ final' = Frame(OutCols, merged.rows)
    /\ written' = {"model_output.csv"}
    /\ pc' = "done"
    /\ UNCHANGED <<oddsVars, parlayVars, feedVars, pkgRest, cfg, priors, exc, odds_df, feeds, merged>>

NextSlate ==
    \/ LoadAndMerge
    \/ ApplyExternalAdjustments
    \/ PriceSlate
    \/ SaveOutputs

SpecSlate == InitSlate /\ [][NextSlate]_vars

(***************************************************************************)
(* ParlayBuilder: build_parlays of the package's parlays.py                *)
(***************************************************************************)
\* min_edge: a min_edge_pct below 1 is a fraction and is scaled to per cent
MinEdge(b) ==
    IF Lt(b.min_edge_pct, Num(1)) THEN Mul(Num(100), b.min_edge_pct) ELSE b.min_edge_pct

\* pred_df[pred_df["edge_pct"] >= min_edge]
Qualifying(rows, min_edge) == SelectSeq(rows, LAMBDA r : Ge(r.edge_pct, min_edge))

\* r put into a sequence sorted by edge_pct, highest first, behind the rows of
\* the same edge
RECURSIVE InsertDesc(_, _)
InsertDesc(r, sorted) ==
    IF Len(sorted) = 0 THEN <<r>>
    ELSE IF Gt(r.edge_pct, Head(sorted).edge_pct) THEN <<r>> \o sorted
    ELSE <<Head(sorted)>> \o InsertDesc(r, Tail(sorted))

\* sort_values("edge_pct", ascending=False) of rows of different edges
RECURSIVE SortDesc(_, _)
SortDesc(rows, acc) ==
    IF Len(rows) = 0 THEN acc ELSE SortDesc(Tail(rows), InsertDesc(Head(rows), acc))

\* df.head(n) for n >= 0
HeadOf(rows, n) == SubSeq(rows, 1, IF n < Len(rows) THEN n ELSE Len(rows))

\* the size of the pool a bucket draws its legs from
PoolCap == 40

Descending(rows) ==
    \A i \in 1..(Len(rows) - 1) : Ge(rows[i].edge_pct, rows[i + 1].edge_pct)

DistinctEdges(rows) ==
    \A i, j \in 1..Len(rows) : i # j => rows[i].edge_pct # rows[j].edge_pct

\* the rows in every order
Arrangements(rows) ==
    {[i \in 1..Len(rows) |-> rows[f[i]]] :
        f \in {g \in [1..Len(rows) -> 1..Len(rows)] :
                  \A i, j \in 1..Len(rows) : i # j => g[i] # g[j]}}

\* the orders sort_values may leave the rows in: the default sort is not
\* stable, so rows of equal edge come out in any order
Orders(rows) ==
    IF DistinctEdges(rows) THEN {SortDesc(rows, <<>>)}
    ELSE {o \in Arrangements(rows) : Descending(o)}

PoolsUnsorted(rows, b) == {HeadOf(Qualifying(rows, MinEdge(b)), PoolCap)}

\* the pools a bucket may draw its legs from
Pools(rows, b) == {HeadOf(o, PoolCap) : o \in Orders(Qualifying(rows, MinEdge(b)))}

ClipProbAbsent(p) == p

\* side_prob.clip(0.001, 0.999)
ClipProb(p) ==
    IF Lt(p, Q(1, 1000)) THEN Q(1, 1000)
    ELSE IF Gt(p, Q(999, 1000)) THEN Q(999, 1000) ELSE p

\* a finite float whose numerator or denominator is beyond the integers of the
\* model: its value is not represented
OutOfRange == [n |-> 0, d |-> -2]

\* a * b is an integer of the model, for a, b >= 0
Fits(a, b) == a = 0 \/ b <= 2147483647 \div a

MulFits(x, y, g1, g2) ==
    IF Fits(Abs(x.n) \div g1, Abs(y.n) \div g2) /\ Fits(x.d \div g2, y.d \div g1)
    THEN Mul(x, y) ELSE OutOfRange

\* x * y of a product of many factors
MulRange(x, y) ==
    IF x = OutOfRange \/ y = OutOfRange THEN OutOfRange
    ELSE IF ~IsFinite(x) \/ ~IsFinite(y) THEN Mul(x, y)
    ELSE MulFits(x, y, GCD(Abs(x.n), y.d), GCD(Abs(y.n), x.d))

RECURSIVE ProdProbsUnpenalised(_, _)
ProdProbsUnpenalised(legs, pen) ==
    IF Len(legs) = 0 THEN Num(1)
    ELSE MulRange(ClipProb(Head(legs).side_prob), ProdProbsUnpenalised(Tail(legs), pen))

\* np.prod of the clipped probabilities, each times the penalty
RECURSIVE ProdProbs(_, _)
ProdProbs(legs, pen) ==
    IF Len(legs) = 0 THEN Num(1)
    ELSE MulRange(Mul(ClipProb(Head(legs).side_prob), pen), ProdProbs(Tail(legs), pen))

\* np.prod of the decimal odds
RECURSIVE ProdOdds(_)
ProdOdds(legs) ==
    IF Len(legs) = 0 THEN Num(1)
    ELSE MulRange(Head(legs).decimal_odds, ProdOdds(Tail(legs)))

\* parlay_prob*dec_odds - 1.0
EvPerUnit(prod) == IF prod = OutOfRange THEN OutOfRange ELSE Sub(prod, Num(1))

\* the text of one leg, kept as its five parts
LegText(r) == <<r.player, r.market, r.side, r.line, r.book_odds_american>>

\* the result row of a bucket with a pool; legs is the " | "-joined text, kept
\* as the sequence of its legs ("" is the empty sequence)
ParlayRowOf(name, legs, parlay_prob, dec_odds) ==
    [bucket |-> name,
     legs |-> [i \in 1..Len(legs) |-> LegText(legs[i])],
     parlay_prob |-> parlay_prob,
     decimal_odds |-> dec_odds,
     ev_per_unit |-> EvPerUnit(MulRange(parlay_prob, dec_odds))]

ParlayRow(name, legs, pen) == ParlayRowOf(name, legs, ProdProbs(legs, pen), ProdOdds(legs))

\* the result row of a bucket without a pool
Sentinel(name) ==
    [bucket |-> name, legs |-> <<>>, parlay_prob |-> Num(0),
     decimal_odds |-> Num(1), ev_per_unit |-> Num(-1)]

BucketOfPool(b, pool, pen) ==
    IF Len(pool) = 0 THEN Sentinel(b.name)
    ELSE ParlayRow(b.name, HeadOf(pool, b.max_legs), pen)

\* one pass of the loop of build_parlays: the rows bucket b may get, or the
\* KeyError of pred_df["edge_pct"] on a frame without that column
BucketSteps(df, b, pen) ==
    IF "edge_pct" \notin Range(df.columns) THEN {[exc |-> "KeyError", row |-> <<>>]}
    ELSE {[exc |-> "none", row |-> BucketOfPool(b, pool, pen)] : pool \in Pools(df.rows, b)}

(***************************************************************************)
(* The inputs of build_parlays.                                            *)
(***************************************************************************)
Leg(player, edge_pct, side_prob, book_odds_american) ==
    [player |-> player, market |-> "receiving_yards", side |-> "Over", line |-> Q(101, 2),
     edge_pct |-> edge_pct, side_prob |-> side_prob,
     book_odds_american |-> book_odds_american,
     decimal_odds |-> american_to_decimal(book_odds_american)]

\* the priced rows a table draws from, one per player
ParlayLegs ==
    {Leg("A", Num(6), Q(55, 100), Num(100)),
     Leg("B", Num(3), Q(1, 2), Num(-125)),
     Leg("C", Num(3), Q(3, 5), Num(150)),
     Leg("D", Num(-2), Q(2, 5), Num(100)),
     Leg("E", Num(45), Q(9995, 10000), Num(-400)),
     Leg("F", NaN, Q(1, 2), Num(100))}

\* how many priced rows the table holds at most
MaxLegs == 2

\* the tables: sequences of rows of different players
ParlayTables ==
    {t \in UNION {[1..k -> ParlayLegs] : k \in 0..MaxLegs} :
        \A i, j \in 1..Len(t) : i # j => t[i].player # t[j].player}

\* a slate with more qualifying rows than the pool holds: one row more than
\* PoolCap, every row of another edge, the lowest edge first
Digits == <<"0", "1", "2", "3", "4", "5", "6", "7", "8", "9">>

WideLeg(k) ==
    Leg("W" \o Digits[(k \div 10) + 1] \o Digits[(k % 10) + 1], Num(k), Q(1, 2), Num(100))

WideTable == [k \in 1..(PoolCap + 1) |-> WideLeg(k)]

Bucket(name, min_edge_pct, max_legs) ==
    [name |-> name, min_edge_pct |-> min_edge_pct, max_legs |-> max_legs]

\* config.yaml, parlays, with buckets of as many legs as the pool holds and of
\* one more
WideCfg ==
    [parlays |-> [correlation_penalty |-> Q(95, 100),
                  buckets |-> <<Bucket("wide", Num(1), PoolCap + 1),
                                Bucket("full", Num(2), PoolCap),
                                Bucket("top", Num(3), 2)>>]]

\* config.yaml, parlays: the shipped shape and two variations (a bucket nothing
\* reaches in another place; no bucket at all)
ParlayCfgs ==
    {[parlays |-> [correlation_penalty |-> Q(95, 100),
                   buckets |-> <<Bucket("safe", Q(4, 100), 2), Bucket("mid", Num(2), 2),
                                 Bucket("moon", Num(50), 2)>>]],
     [parlays |-> [correlation_penalty |-> Q(95, 100),
                   buckets |-> <<Bucket("moon", Num(50), 1), Bucket("any", Num(-5), 1),
                                 Bucket("none", Num(3), 0)>>]],
     [parlays |-> [correlation_penalty |-> Num(1), buckets |-> <<>>]],
     WideCfg}

(***************************************************************************)
(* build_parlays as a state machine: one step per bucket.                  *)
(***************************************************************************)
\* the call build_parlays(pred_df, cfg); a table without a priced row is the
\* frame pd.DataFrame([]) eval_yardage returns, or a frame with its columns only
InitParlay ==
    /\ OddsIdle
    /\ SlateIdle
    /\ FeedIdle
    /\ PkgRestIdle
    /\ priors = NoFrame
    /\ written = {}
    /\ cfg \in ParlayCfgs
    /\ pred_df \in {NoFrame} \cup {Frame(EvalColumns, t) : t \in ParlayTables \cup {WideTable}}
    /\ outs = <<>>
    /\ pc = "start"
    /\ exc = "none"

\* the body of the loop for the next bucket
ParlayBucket ==
    /\ pc = "start"
    /\ Len(outs) < Len(cfg.parlays.buckets)
    /\ \E res \in BucketSteps(pred_df, cfg.parlays.buckets[Len(outs) + 1],
                               cfg.parlays.correlation_penalty) :
          IF res.exc = "none"
          THEN outs' = Append(outs, res.row) /\ UNCHANGED <<pc, exc>>
          ELSE pc' = "raised" /\ exc' = res.exc /\ UNCHANGED outs
    /\ UNCHANGED <<oddsVars, slateVars, feedVars, pkgRest, cfg, priors, written, pred_df>>

\* return pd.DataFrame(outs)
ParlayReturn ==
    /\ pc = "start"
    /\ Len(outs) = Len(cfg.parlays.buckets)
    /\ pc' = "done"
    /\ UNCHANGED <<oddsVars, slateVars, feedVars, pkgRest, cfg, priors, written, exc, pred_df,
                   outs>>

NextParlay ==
    \/ ParlayBucket
    \/ ParlayReturn

SpecParlay == InitParlay /\ [][NextParlay]_vars

(***************************************************************************)
(* Feeds: _get_csv and load_feed_mods of the package's feeds.py, followed  *)
(* by adjusted_mu_sd on one row.                                           *)
(***************************************************************************)
\* the feeds in the order load_feed_mods asks for them
FeedNames == <<"team_epa", "team_pace", "team_proe", "rbsdm_qb">>

\* range(3): the requests _get_csv sends for one url at most
MaxTries == 3

\* the largest k with k * k <= n
ISqrt(n) == CHOOSE k \in 0..46340 : k * k <= n /\ (k + 1) * (k + 1) > n

\* the square root of a float >= 0, to the thousandth
Sqrt(x) == CHOOSE r \in {Q(ISqrt(n), 1000) : n \in {(x.n * 1000000) \div x.d}} : TRUE

RECURSIVE SumOf(_)
SumOf(vals) == IF Len(vals) = 0 THEN Num(0) ELSE Add(Head(vals), SumOf(Tail(vals)))

\* df[col].mean()
MeanOf(vals) == Div(SumOf(vals), Num(Len(vals)))

\* max(df[col].std(ddof=0), 1e-6), m the mean
StdAround(vals, m) ==
    CHOOSE s \in {PyMax(std, Q(1, SdFloorDen)) :
                     std \in {Sqrt(var) :
                                 var \in {Div(SumOf([i \in 1..Len(vals) |->
                                                       Mul(Sub(vals[i], m), Sub(vals[i], m))]),
                                               Num(Len(vals)))}}} : TRUE

\* a row of a feed: its team or player, and its value in the first column
\* that names the signal
FeedLine(key, val) == [key |-> key, val |-> val]

Vals(df) == [i \in 1..Len(df.rows) |-> df.rows[i].val]

\* the columns a list comprehension of load_feed_mods keeps
TeamCols(df) == SelectSeq(df.columns, LAMBDA c : c \in {"team", "posteam", "abbr"})

AllIn(words, df) == SelectSeq(df.columns, LAMBDA c : \A w \in words : Contains(w, c))

AnyIn(words, df) == SelectSeq(df.columns, LAMBDA c : \E w \in words : Contains(w, c))

\* _norm_col(df, team_col, val_col): 1 + (value - m) / s * 0.05 per team
NormColOf(df, m, s) ==
    [t \in {df.rows[i].key : i \in 1..Len(df.rows)} |->
        Add(Num(1),
            Mul(Div(Sub((CHOOSE r \in Range(df.rows) : r.key = t).val, m), s), Q(5, 100)))]

NormColAround(df, m) ==
    CHOOSE out \in {NormColOf(df, m, s) : s \in {StdAround(Vals(df), m)}} : TRUE

_norm_col(df) == CHOOSE out \in {NormColAround(df, m) : m \in {MeanOf(Vals(df))}} : TRUE

\* mods[...] of a team feed: {} unless the feed was read and has a team
\* column and a column naming the signal with every one of the words
TeamSignal(df, words) ==
    IF df.read /\ Len(TeamCols(df)) > 0 /\ Len(AllIn(words, df)) > 0
    THEN _norm_col(df) ELSE <<>>

\* the names at or below low_cut = m - 0.5 * s
LowBelow(df, low_cut) ==
    {df.rows[i].key : i \in {j \in 1..Len(df.rows) : Le(df.rows[j].val, low_cut)}}

LowTierOf(df, m) ==
    UNION {LowBelow(df, low_cut) :
              low_cut \in {Sub(m, Mul(Q(1, 2), s)) : s \in {StdAround(Vals(df), m)}}}

\* mods["low_tier_qb"]
LowTier(df) ==
    IF df.read /\ Len(AnyIn({"player", "name"}, df)) > 0 /\ Len(AnyIn({"epa"}, df)) > 0
    THEN UNION {LowTierOf(df, m) : m \in {MeanOf(Vals(df))}} ELSE {}

\* the mods load_feed_mods returns for the four frames _get_csv returned
ModsOf(f) ==
    [pace |-> TeamSignal(f[2], {"pace"}), proe |-> TeamSignal(f[3], {"proe"}),
     off_epa |-> TeamSignal(f[1], {"off", "epa"}),
     top10_pressure |-> {}, low_tier_qb |-> LowTier(f[4])]

\* what the four urls serve when they answer
Served ==
    [team_epa |-> Feed(<<"team", "off_epa_per_play">>,
                       <<FeedLine("KC", Q(15, 100)), FeedLine("NYJ", Q(-5, 100))>>),
     team_pace |-> Feed(<<"team", "pace">>, <<FeedLine("KC", Num(66)), FeedLine("NYJ", Num(60))>>),
     team_proe |-> Feed(<<"posteam", "proe">>,
                        <<FeedLine("KC", Q(2, 100)), FeedLine("NYJ", Q(-2, 100))>>),
     rbsdm_qb |-> Feed(<<"player_name", "epa_per_play">>,
                       <<FeedLine("QB1", Q(10, 100)), FeedLine("QB", Q(-10, 100))>>)]

\* cfg["feeds"]: a url for some of the feeds
FeedCfgs ==
    {[risk |-> PkgCfg.risk, volatility |-> PkgCfg.volatility,
      feeds |-> [n \in S |-> "https://feeds/" \o n]] : S \in SUBSET Range(FeedNames)}

\* the rows adjusted_mu_sd is applied to, as attach_context leaves them: a
\* receiver without any context, one of a team no feed lists, a quarterback,
\* a receiver in cold and wind, a quarterback with a usage adjustment, a
\* player whose prior has no mean
FeedRows ==
    {Merged(Quote(g, r[1], r[2], r[3], Num(50), Num(-110), Num(-110)),
            [mean |-> r[4], sd |-> r[5]], [snap_adj |-> Num(1), share_adj |-> r[6]],
            [home |-> "KC", away |-> "DEN"], [temp_f |-> r[7], wind_mph |-> r[8]]) :
        g \in {"g1"},
        r \in {<<"KC", "A", "receiving_yards", Num(60), Num(20), Num(1), NaN, NaN>>,
                <<"DEN", "D", "receiving_yards", Num(60), Num(20), Num(1), NaN, NaN>>,
                <<"NYJ", "QB", "passing_yards", Num(240), Num(40), Num(1), NaN, NaN>>,
                <<"DEN", "D", "receiving_yards", Num(60), Num(20), Num(1), Num(30), Num(20)>>,
                <<"DEN", "QB", "passing_yards", Num(240), Num(40), Q(9, 10), NaN, NaN>>,
                <<"DEN", "M", "receiving_yards", NaN, Num(20), Num(1), NaN, NaN>>}}

\* mods = load_feed_mods(cfg) is entered with nothing fetched; a feed without
\* a url is never asked, one with a url answers or does not
InitFeeds ==
    /\ ParlayIdle
    /\ call = "none" /\ arg = None /\ ret = NoRet
    /\ cfg \in FeedCfgs
    /\ feeds \in {f \in [Range(FeedNames) -> {NoFeed} \cup Range(Served)] :
                     \A n \in Range(FeedNames) :
                         /\ f[n] \in {NoFeed, Served[n]}
                         /\ n \notin DOMAIN cfg.feeds => f[n] = NoFeed}
    /\ odds_df = NoFrame /\ merged = NoFrame /\ final = NoFrame
    /\ PkgRestIdle
    /\ priors = NoFrame
    /\ written = {}
    /\ fetched = <<>>
    /\ tries = [k \in 1..Len(FeedNames) |-> 0]
    /\ pc = "fetch"
    /\ exc = "none"

\* the feed _get_csv is called for next
Asked == FeedNames[Len(fetched) + 1]

\* _get_csv(url) for a missing url: return None
GetCsvNoUrl ==
    /\ pc = "fetch" /\ Len(fetched) < Len(FeedNames)
    /\ Asked \notin DOMAIN cfg.feeds
    /\ fetched' = Append(fetched, NoFeed)
    /\ UNCHANGED <<oddsVars, pkgVars, slateVars, parlayVars, tries>>

\* one pass of the loop of _get_csv in which the request is answered
GetCsvAnswered ==
    /\ pc = "fetch" /\ Len(fetched) < Len(FeedNames)
    /\ Asked \in DOMAIN cfg.feeds
    /\ tries[Len(fetched) + 1] < MaxTries
    /\ feeds[Asked].read
    /\ tries' = [tries EXCEPT ![Len(fetched) + 1] = @ + 1]
    /\ fetched' = Append(fetched, feeds[Asked])
    /\ UNCHANGED <<oddsVars, pkgVars, slateVars, parlayVars>>

\* one pass in which the request raises (no answer, a timeout, a bad status):
\* the exception is caught, warned about and slept on
GetCsvFailed ==
    /\ pc = "fetch" /\ Len(fetched) < Len(FeedNames)
    /\ Asked \in DOMAIN cfg.feeds
    /\ tries[Len(fetched) + 1] < MaxTries
    /\ tries' = [tries EXCEPT ![Len(fetched) + 1] = @ + 1]
    /\ UNCHANGED <<oddsVars, pkgVars, slateVars, parlayVars, fetched>>

\* the loop of _get_csv is over: return None
GetCsvGaveUp ==
    /\ pc = "fetch" /\ Len(fetched) < Len(FeedNames)
    /\ Asked \in DOMAIN cfg.feeds
    /\ tries[Len(fetched) + 1] = MaxTries
    /\ fetched' = Append(fetched, NoFeed)
    /\ UNCHANGED <<oddsVars, pkgVars, slateVars, parlayVars, tries>>

\* the rest of load_feed_mods: the mods of the four frames
BuildMods ==
    /\ pc = "fetch" /\ Len(fetched) = Len(FeedNames)
    /\ mods' = ModsOf(fetched)
    /\ pc' = "loaded"
    /\ UNCHANGED <<oddsVars, slateVars, parlayVars, feedVars, cfg, priors, ctx, straight, alt, td,
                   exc, straight_eval, alt_eval, td_eval, written>>

\* adjusted_mu_sd(row, mods, cfg) on a row
AdjustRow ==
    /\ pc = "loaded"
    /\ call' = "adjusted_mu_sd"
    /\ \E row \in FeedRows :
          /\ arg' = row
          /\ ret' = adjusted_mu_sd(row, mods, cfg)
    /\ pc' = "done"
    /\ UNCHANGED <<slateVars, parlayVars, feedVars, cfg, priors, ctx, mods, straight, alt, td,
                   exc, straight_eval, alt_eval, td_eval, written>>

NextFeeds ==
    \/ GetCsvNoUrl
    \/ GetCsvAnswered
    \/ GetCsvFailed
    \/ GetCsvGaveUp
    \/ BuildMods
    \/ AdjustRow

SpecFeeds == InitFeeds /\ [][NextFeeds]_vars

(***************************************************************************)
(* The weather harness: weather_penalty and the weather step of            *)
(* adjusted_mu_sd applied to one pair of readings.                         *)
(***************************************************************************)
\* the readings are drawn this far to either side of the thresholds
WeatherSpan == 2

\* the volatility knobs: the package's and one with other widths and a
\* threshold between two readings
WeatherCfgs ==
    {PkgCfg,
     [PkgCfg EXCEPT !.volatility.wind_sd_widen = Q(20, 100),
                    !.volatility.cold_sd_widen = Num(0),
                    !.volatility.cold_threshold_f = Q(63, 2)]}

\* a reading around the threshold, or none: None as passed by a caller, NaN as
\* the merge leaves it for a game the weather file does not list
Readings(threshold) ==
    {Num(threshold + k) : k \in -WeatherSpan..WeatherSpan} \cup {None, NaN}

WeatherInputs ==
    {[temp_f |-> t, wind_mph |-> w, sd |-> sd, cfg |-> c] :
        t \in Readings(32), w \in Readings(15), sd \in {Num(20), Q(25, 2)}, c \in WeatherCfgs}

InitWeather ==
    /\ PkgIdle
    /\ SlateIdle
    /\ ParlayIdle
    /\ FeedIdle
    /\ call = "none"
    /\ arg \in WeatherInputs
    /\ ret = NoRet

\* weather_penalty(temp_f, wind_mph, cfg)
CallWeatherPenalty ==
    /\ call = "none"
    /\ call' = "weather_penalty"
    /\ ret' = [widen |-> weather_penalty(arg.temp_f, arg.wind_mph, arg.cfg), sd |-> None]
    /\ UNCHANGED <<arg, pkgVars, slateVars, parlayVars, feedVars>>

\* wx_widen = weather_penalty(...); sd *= wx_widen
CallWeatherWidener ==
    /\ call = "none"
    /\ call' = "weather_widener"
    /\ \E wx_widen \in {weather_penalty(arg.temp_f, arg.wind_mph, arg.cfg)} :
          ret' = [widen |-> wx_widen, sd |-> Mul(arg.sd, wx_widen)]
    /\ UNCHANGED <<arg, pkgVars, slateVars, parlayVars, feedVars>>

NextWeather ==
    \/ CallWeatherPenalty
    \/ CallWeatherWidener

SpecWeather == InitWeather /\ [][NextWeather]_vars

(***************************************************************************)
(* Python floats bit for bit: IEEE 754 binary64, round to nearest, ties to *)
(* even, for the edge measures, whose sign depends on the rounding.  A     *)
(* natural number is the sequence of its digits in base 8192, least        *)
(* significant first; a float is s * m * 2^e with m of 53 bits (no         *)
(* subnormals, infinities or NaN: the edge measures stay far from them).   *)
(***************************************************************************)
RECURSIVE NatTrim(_)
NatTrim(x) ==
    IF Len(x) > 0 /\ x[Len(x)] = 0 THEN NatTrim(SubSeq(x, 1, Len(x) - 1)) ELSE x

RECURSIVE NatOf(_)
NatOf(i) == IF i = 0 THEN <<>> ELSE <<i % 8192>> \o NatOf(i \div 8192)

RECURSIVE NatAddC(_, _, _)
NatAddC(x, y, c) ==
    IF Len(x) = 0 /\ Len(y) = 0 THEN NatOf(c)
    ELSE CHOOSE r \in {<<a % 8192>> \o NatAddC(IF Len(x) > 0 THEN Tail(x) ELSE x,
                                               IF Len(y) > 0 THEN Tail(y) ELSE y, a \div 8192) :
                          a \in {(IF Len(x) > 0 THEN Head(x) ELSE 0)
                                   + (IF Len(y) > 0 THEN Head(y) ELSE 0) + c}} : TRUE

NatAdd(x, y) == NatAddC(x, y, 0)

\* x - y for x >= y
RECURSIVE NatSubB(_, _, _)
NatSubB(x, y, b) ==
    IF Len(x) = 0 THEN <<>>
    ELSE CHOOSE r \in {<<a % 8192>> \o NatSubB(Tail(x), IF Len(y) > 0 THEN Tail(y) ELSE y,
                                               IF a < 8192 THEN 1 ELSE 0) :
                          a \in {8192 + Head(x) - (IF Len(y) > 0 THEN Head(y) ELSE 0) - b}} : TRUE

NatSub(x, y) == NatTrim(NatSubB(x, y, 0))

\* the sign of x - y
RECURSIVE NatCmp(_, _)
NatCmp(x, y) ==
    IF Len(x) # Len(y) THEN (IF Len(x) < Len(y) THEN -1 ELSE 1)
    ELSE IF Len(x) = 0 THEN 0
    ELSE IF x[Len(x)] # y[Len(y)] THEN (IF x[Len(x)] < y[Len(y)] THEN -1 ELSE 1)
    ELSE NatCmp(SubSeq(x, 1, Len(x) - 1), SubSeq(y, 1, Len(y) - 1))

\* x * c for a digit c
RECURSIVE NatMulC(_, _, _)
NatMulC(x, c, carry) ==
    IF Len(x) = 0 THEN NatOf(carry)
    ELSE CHOOSE r \in {<<a % 8192>> \o NatMulC(Tail(x), c, a \div 8192) :
                          a \in {Head(x) * c + carry}} : TRUE

NatMulSmall(x, c) == IF c = 0 THEN <<>> ELSE NatMulC(x, c, 0)

RECURSIVE NatMul(_, _)
NatMul(x, y) ==
    IF Len(x) = 0 \/ Len(y) = 0 THEN <<>>
    ELSE NatTrim(NatAdd(NatMulSmall(y, Head(x)), <<0>> \o NatMul(Tail(x), y)))

\* floor(x / c) for a digit c > 0, from the most significant digit down
RECURSIVE NatDivC(_, _, _)
NatDivC(x, c, rem) ==
    IF Len(x) = 0 THEN <<>>
    ELSE CHOOSE r \in {Append(NatDivC(SubSeq(x, 1, Len(x) - 1), c, a % c), a \div c) :
                          a \in {rem * 8192 + x[Len(x)]}} : TRUE

NatDivSmall(x, c) == NatTrim(NatDivC(x, c, 0))

\* x * 2^k and floor(x / 2^k)
NatShl(x, k) ==
    IF Len(x) = 0 THEN x
    ELSE [i \in 1..(k \div 13) |-> 0] \o NatMulSmall(x, 2^(k % 13))

NatShr(x, k) ==
    IF k \div 13 >= Len(x) THEN <<>>
    ELSE NatDivSmall(SubSeq(x, (k \div 13) + 1, Len(x)), 2^(k % 13))

\* the number of bits of x
BitLen(x) ==
    IF Len(x) = 0 THEN 0
    ELSE 13 * (Len(x) - 1) + (CHOOSE k \in 1..13 : x[Len(x)] < 2^k /\ x[Len(x)] >= 2^(k - 1))

NatOdd(x) == Len(x) > 0 /\ Head(x) % 2 = 1

FlZero == [s |-> 0, m |-> <<>>, e |-> 0]

\* s * m * 2^e (and a little more when sticky) rounded to 53 bits
FlRoundAt(s, m, e, sticky, k) ==
    IF k <= 0 THEN [s |-> s, m |-> NatShl(m, -k), e |-> e + k]
    ELSE CHOOSE r \in
           {CHOOSE t \in {IF BitLen(u) > 53 THEN [s |-> s, m |-> NatShr(u, 1), e |-> e + k + 1]
                          ELSE [s |-> s, m |-> u, e |-> e + k] :
                             u \in {IF NatOdd(q) /\ (sticky \/ NatCmp(NatShl(q, k - 1), m) # 0
                                                       \/ NatOdd(NatShr(q, 1)))
                                    THEN NatAdd(NatShr(q, 1), <<1>>) ELSE NatShr(q, 1)}} : TRUE :
               q \in {NatShr(m, k - 1)}} : TRUE

FlRound(s, m, e, sticky) ==
    IF Len(m) = 0 \/ s = 0 THEN FlZero ELSE FlRoundAt(s, m, e, sticky, BitLen(m) - 53)

FlOfInt(i) == FlRound(IF i < 0 THEN -1 ELSE 1, NatOf(IF i < 0 THEN -i ELSE i), 0, FALSE)

FlNeg(x) == [x EXCEPT !.s = -x.s]

FlMul(x, y) == FlRound(x.s * y.s, NatMul(x.m, y.m), x.e + y.e, FALSE)

\* the sign of |x| - |y| for x, y not 0 (both of 53 bits)
FlCmpMag(x, y) ==
    IF x.e # y.e THEN (IF x.e < y.e THEN -1 ELSE 1) ELSE NatCmp(x.m, y.m)

\* the sign of x - y
FlCmp(x, y) ==
    IF x.s # y.s THEN (IF x.s < y.s THEN -1 ELSE 1)
    ELSE IF x.s = 0 THEN 0
    ELSE x.s * FlCmpMag(x, y)

\* x + y: the exact sum on the smaller exponent, rounded
FlAddAt(x, y, e) ==
    CHOOSE r \in
      {IF x.s = y.s THEN FlRound(x.s, NatAdd(a[1], a[2]), e, FALSE)
       ELSE IF NatCmp(a[1], a[2]) = 0 THEN FlZero
       ELSE IF NatCmp(a[1], a[2]) > 0 THEN FlRound(x.s, NatSub(a[1], a[2]), e, FALSE)
       ELSE FlRound(y.s, NatSub(a[2], a[1]), e, FALSE) :
          a \in {<<NatShl(x.m, x.e - e), NatShl(y.m, y.e - e)>>}} : TRUE

FlAdd(x, y) ==
    IF x.s = 0 THEN y
    ELSE IF y.s = 0 THEN x
    ELSE FlAddAt(x, y, IF x.e < y.e THEN x.e ELSE y.e)

FlSub(x, y) == FlAdd(x, FlNeg(y))

\* the next n bits of r / b after the point, for r < b, and what is left
RECURSIVE DivBits(_, _, _, _)
DivBits(r, b, n, acc) ==
    IF n = 0 THEN [q |-> acc, r |-> r]
    ELSE CHOOSE res \in
           {IF NatCmp(r2, b) >= 0 THEN DivBits(NatSub(r2, b), b, n - 1, 2 * acc + 1)
            ELSE DivBits(r2, b, n - 1, 2 * acc) :
               r2 \in {NatAdd(r, r)}} : TRUE

\* the next k digits (base 8192) of r / b after those of acc
RECURSIVE DivDigits(_, _, _, _)
DivDigits(r, b, k, acc) ==
    IF k = 0 THEN [q |-> NatTrim(acc), sticky |-> Len(r) > 0]
    ELSE CHOOSE res \in {DivDigits(d.r, b, k - 1, <<d.q>> \o acc) :
                            d \in {DivBits(r, b, 13, 0)}} : TRUE

\* x / y for y not 0: 65 bits of the quotient of the mantissas, rounded
FlDivOf(x, y, d) == FlRound(x.s * y.s, d.q, x.e - y.e - 65, d.sticky)

FlDiv(x, y) ==
    IF x.s = 0 THEN FlZero
    ELSE IF NatCmp(x.m, y.m) >= 0
         THEN FlDivOf(x, y, DivDigits(NatSub(x.m, y.m), y.m, 5, <<1>>))
         ELSE FlDivOf(x, y, DivDigits(x.m, y.m, 5, <<>>))

FlMax(x, y) == IF FlCmp(y, x) > 0 THEN y ELSE x

Fl0 == FlZero

Fl1 == FlOfInt(1)

Fl100 == FlOfInt(100)

FlAbs(x) == [x EXCEPT !.s = x.s * x.s]

\* american_to_prob(odds) of src/model/core.py for a price that is not 0
american_to_prob64(odds) ==
    IF FlCmp(odds, Fl0) > 0 THEN FlDiv(Fl100, FlAdd(odds, Fl100))
    ELSE CHOOSE r \in {FlDiv(a, FlAdd(a, Fl100)) : a \in {FlMul(FlOfInt(-1), odds)}} : TRUE

\* american_to_implied(odds) of io.py: 1.0 / american_to_decimal(odds)
american_to_implied64(odds) ==
    FlDiv(Fl1, IF FlCmp(odds, Fl0) < 0 THEN FlAdd(Fl1, FlDiv(Fl100, FlAbs(odds)))
               ELSE FlAdd(Fl1, FlDiv(odds, Fl100)))

\* prof = dec - 1.0, for dec = 1 + price/100 or 1 + 100/abs(price)
ProfitOf64(price_american) ==
    FlSub(IF FlCmp(price_american, Fl0) > 0 THEN FlAdd(Fl1, FlDiv(price_american, Fl100))
          ELSE FlAdd(Fl1, FlDiv(Fl100, FlAbs(price_american))), Fl1)

\* ev_from_prob(price_american, p): p * prof - (1 - p) * 1.0
ev_from_prob64(price_american, p) ==
    FlSub(FlMul(p, ProfitOf64(price_american)), FlMul(FlSub(Fl1, p), Fl1))

\* b of the two kelly_fraction
OddsB64(price_american) ==
    IF FlCmp(price_american, Fl0) > 0 THEN FlDiv(price_american, Fl100)
    ELSE FlDiv(Fl100, FlAbs(price_american))

\* f = (b * p - q) / b for q = 1 - p
KellyF64(p, b) == FlDiv(FlSub(FlMul(b, p), FlSub(Fl1, p)), b)

\* kelly_fraction without its floor at 0.0
pkg_kelly_fraction64_unfloored(p, american_odds) == KellyF64(p, OddsB64(american_odds))

\* kelly_fraction(p, american_odds) of kelly.py: max(0.0, f)
pkg_kelly_fraction64(p, american_odds) ==
    FlMax(Fl0, KellyF64(p, OddsB64(american_odds)))

\* kelly_fraction without its floor at 0.0
kelly_fraction64_unfloored(price_american, p) ==
    IF FlCmp(p, Fl0) <= 0 \/ FlCmp(p, Fl1) >= 0 THEN None
    ELSE KellyF64(p, OddsB64(price_american))

\* kelly_fraction(price_american, p) of src/model/core.py
kelly_fraction64(price_american, p) ==
    IF FlCmp(p, Fl0) <= 0 \/ FlCmp(p, Fl1) >= 0 THEN None
    ELSE FlMax(Fl0, KellyF64(p, OddsB64(price_american)))

(***************************************************************************)
(* The edge measures, applied to prices and probabilities.                 *)
(***************************************************************************)
\* the prices run from 100 to this, on both sides
MaxEdgePrice == 110

EdgePrices == {o \in -MaxEdgePrice..MaxEdgePrice : o >= 100 \/ o <= -100}

\* the floats next to x: x * (1 + 2^-52) and x * (1 - 2^-53), rounded
NextTo(x) ==
    {FlMul(x, FlAdd(Fl1, [s |-> 1, m |-> <<1>>, e |-> -52])),
     FlMul(x, FlSub(Fl1, [s |-> 1, m |-> <<1>>, e |-> -53]))}

\* the two implied probabilities of a price
ImpliedOf(o) == {american_to_prob64(FlOfInt(o)), american_to_implied64(FlOfInt(o))}

\* the probabilities: the implied probability of every price (of the price
\* at hand it is the fair one) and the eighths
EdgeProbs ==
    UNION {ImpliedOf(o) : o \in EdgePrices} \cup {FlDiv(FlOfInt(k), FlOfInt(8)) : k \in 1..7}

\* a price with one of the probabilities or with a float next to its own
\* implied probability
EdgeInputs ==
    UNION {{[price |-> o, p |-> p] : p \in EdgeProbs \cup UNION {NextTo(f) : f \in ImpliedOf(o)}} :
              o \in EdgePrices}

InitEdge ==
    /\ PkgIdle
    /\ SlateIdle
    /\ ParlayIdle
    /\ FeedIdle
    /\ call = "none"
    /\ arg \in EdgeInputs
    /\ ret = NoRet

\* kelly_fraction, ev_from_prob and american_to_prob of src/model/core.py
CallEdgeCore ==
    /\ call = "none"
    /\ call' = "edge_core"
    /\ \E price \in {FlOfInt(arg.price)} :
          ret' = [kelly |-> kelly_fraction64(price, arg.p),
                  ev |-> ev_from_prob64(price, arg.p),
                  implied |-> american_to_prob64(price)]
    /\ UNCHANGED <<arg, pkgVars, slateVars, parlayVars, feedVars>>

\* kelly_fraction of kelly.py and american_to_implied of io.py, as price_row
\* uses them
CallEdgePkg ==
    /\ call = "none"
    /\ call' = "edge_pkg"
    /\ \E price \in {FlOfInt(arg.price)} :
          ret' = [kelly |-> pkg_kelly_fraction64(arg.p, price),
                  ev |-> ev_from_prob64(price, arg.p),
                  implied |-> american_to_implied64(price)]
    /\ UNCHANGED <<arg, pkgVars, slateVars, parlayVars, feedVars>>

NextEdge ==
    \/ CallEdgeCore
    \/ CallEdgePkg

SpecEdge == InitEdge /\ [][NextEdge]_vars

(***************************************************************************)
(* devig_two_way of io.py, applied to pairs of raw probabilities.          *)
(***************************************************************************)
\* the raw probabilities other than implied ones are drawn this many eighths
\* to either side of 0
DevigSpan == 8

\* what devig_two_way returns for a degenerate sum
Absent == [over |-> None, under |-> None]

\* devig_two_way with the second component taken as 1 - p_over/s
devig_two_way_complement(p_over, p_under) ==
    CHOOSE r \in {IF FlCmp(t, Fl0) <= 0 THEN Absent
                  ELSE [over |-> FlDiv(p_over, t), under |-> FlSub(Fl1, FlDiv(p_over, t))] :
                     t \in {FlAdd(p_over, p_under)}} : TRUE

\* devig_two_way(p_over, p_under): s = p_over + p_under; (None, None) if
\* s <= 0, else (p_over/s, p_under/s)
devig_two_way(p_over, p_under) ==
    CHOOSE r \in {IF FlCmp(t, Fl0) <= 0 THEN Absent
                  ELSE [over |-> FlDiv(p_over, t), under |-> FlDiv(p_under, t)] :
                     t \in {FlAdd(p_over, p_under)}} : TRUE

\* the floats passed as a raw probability: the implied probability of every
\* price, and eighths around 0 (negative ones and 0 included, for the
\* degenerate sums)
RawProbs ==
    {american_to_implied64(FlOfInt(o)) : o \in EdgePrices}
    \cup {FlDiv(FlOfInt(k), FlOfInt(8)) : k \in -DevigSpan..DevigSpan}

InitDevig ==
    /\ PkgIdle
    /\ SlateIdle
    /\ ParlayIdle
    /\ FeedIdle
    /\ call = "none"
    /\ arg \in [p_over : RawProbs, p_under : RawProbs]
    /\ ret = NoRet

\* devig_two_way(p_over, p_under)
CallDevigTwoWay ==
    /\ call = "none"
    /\ call' = "devig_two_way"
    /\ ret' = devig_two_way(arg.p_over, arg.p_under)
    /\ UNCHANGED <<arg, pkgVars, slateVars, parlayVars, feedVars>>

NextDevig == CallDevigTwoWay

SpecDevig == InitDevig /\ [][NextDevig]_vars

(***************************************************************************)
(* Claims about the odds algebra (checked under SpecOdds).                 *)
(***************************************************************************)
IsIntPrice(x) == IsFinite(x) /\ x.d = 1

\* a conversion "returns a probability" when its result is a float that is not
\* NaN; the failure outcome of core.american_to_prob is None
ReturnsProbability(x) == ~IsNone(x) /\ ~IsNaN(x)

InOddsDomain(x) == IsFinite(x) /\ (Ge(x, Num(100)) \/ Le(x, Num(-100)))

\* C5: the American-odds-to-probability conversion returns a probability only
\* for odds >= 100 or odds <= -100, and fails (no probability) for every price
\* strictly between -100 and 100 and for every non-finite price.
C5_OnlyDomainPricesConvert ==
    call \in {"american_to_prob", "american_to_implied"}
        => (ReturnsProbability(ret.p) <=> InOddsDomain(arg))

\* C6 as stated: for every integer price o with |o| >= 100, +100 and -100
\* included, the probability lies strictly between 0 and 1 and the round trip
\* returns o up to integer rounding (at most 1 away).
C6_RoundTripAllPrices ==
    (call \in {"roundtrip_core", "roundtrip_io"} /\ IsIntPrice(arg) /\ InOddsDomain(arg))
        => /\ Gt(ret.p, Num(0)) /\ Lt(ret.p, Num(1))
           /\ ~IsNone(ret.back)
           /\ Le(FAbs(Sub(ret.back, arg)), Num(1))

\* C6 as amended: the same for every integer price o with 100 <= |o| <= 99999900
\* other than +100; +100 (probability exactly 0.5, the favourite branch) comes
\* back as -100, the same even-money price.
C6_RoundTripExceptPlus100 ==
    (call \in {"roundtrip_core", "roundtrip_io"} /\ IsIntPrice(arg) /\ InOddsDomain(arg)
       /\ Le(FAbs(arg), Num(ClampEdge)))
        => /\ Gt(ret.p, Num(0)) /\ Lt(ret.p, Num(1))
           /\ ~IsNone(ret.back)
           /\ (arg # Num(100) => Le(FAbs(Sub(ret.back, arg)), Num(1)))
           /\ (arg = Num(100) => ret.back = Num(-100))

\* C6 witness: the price +100 has gone through the round trip of
\* src/model/core.py, by way of the probability 0.5, and come back as -100.
C6_Witness ==
    /\ call = "roundtrip_core"
    /\ arg = Num(100)
    /\ ret.p = Q(1, 2)
    /\ ret.back = Num(-100)

(***************************************************************************)
(* Claims about the package run (checked under Spec).                      *)
(***************************************************************************)
RowSet(df) == {df.rows[i] : i \in 1..Len(df.rows)}

\* the larger of the two configured ceilings
LargestCap == PyMax(cfg.risk.kelly_cap_straight, cfg.risk.kelly_cap_alt)

WithinCap(k, cap) == Ge(k, Num(0)) /\ Le(k, cap)

\* C1: every priced row the engine emits, straight-line, alternate-line and
\* anytime-touchdown alike, reports a Kelly fraction >= 0 and <= the configured
\* Kelly cap (read here as the larger of the two configured ceilings).
C1_KellyWithinCap ==
    /\ \A r \in RowSet(straight_eval) \cup RowSet(alt_eval) :
          WithinCap(r.kelly_fraction, LargestCap)
    /\ \A r \in RowSet(td_eval) : WithinCap(r.kelly_yes, LargestCap)

\* the Kelly a row reports when its raw Kelly is capped at cap
KellyCappedAt(r, cap) ==
    RoundTo(PyMin(kelly_fraction(r.side_prob, r.book_odds_american), cap), 10000)

\* C2: a row priced from the alternate-line table has Kelly = min(raw Kelly,
\* risk.kelly_cap_alt), a row priced from the straight table has Kelly =
\* min(raw Kelly, risk.kelly_cap_straight).
C2_CapByMarketClass ==
    /\ \A r \in RowSet(alt_eval) :
          r.kelly_fraction = KellyCappedAt(r, cfg.risk.kelly_cap_alt)
    /\ \A r \in RowSet(straight_eval) :
          r.kelly_fraction = KellyCappedAt(r, cfg.risk.kelly_cap_straight)

\* a price inside the American-odds domain
WellPriced(o) == IsFinite(o) /\ ~IsZero(o)

WellFormedQuote(q) == WellPriced(q.odds_over) /\ WellPriced(q.odds_under)

WellFormedTd(q) == WellPriced(q.odds_yes)

\* the frame without its malformed rows
Without(df, Good(_)) ==
    IF Len(SelectSeq(df.rows, Good)) = 0 THEN NoFrame
    ELSE Frame(df.columns, SelectSeq(df.rows, Good))

\* C7: a malformed row (a price of 0 or missing on one side, a missing prior)
\* affects only that row: with the priors file there, the run completes
\* without raising and prices every other row as if the malformed row were
\* absent.
C7_MalformedRowIsolated ==
    ~AttachRaises(priors, ctx) =>
        /\ pc # "raised"
        /\ pc \in {"straight_done", "alt_done", "td_done", "done"} =>
              straight_eval =
                  eval_yardage(Without(straight, WellFormedQuote), priors, ctx, mods, cfg).df
        /\ pc \in {"alt_done", "td_done", "done"} =>
              alt_eval = eval_yardage(Without(alt, WellFormedQuote), priors, ctx, mods, cfg).df
        /\ pc \in {"td_done", "done"} =>
              td_eval = EvalFrame(TdLoop(Without(td, WellFormedTd).rows, <<>>), TdColumns).df

\* C9, for the package run: with every quote file and the priors file empty,
\* the run ends without an exception and has written an output table of zero
\* rows that carries the priced-row columns.
C9_EmptyInputsStillWriteTable ==
    (Empty(straight) /\ Empty(alt) /\ Empty(td) /\ Empty(priors)) =>
        /\ pc # "raised"
        /\ pc = "done" =>
              /\ "straight_eval.csv" \in written
              /\ straight_eval.columns = EvalColumns
              /\ Len(straight_eval.rows) = 0

(***************************************************************************)
(* Claims about the recommendation (checked under SpecTier).               *)
(***************************************************************************)
\* both sides carry an edge that is a number
BothPriced == IsFinite(arg.eo) /\ IsFinite(arg.eu)

\* C3 as written: with both sides priced, the recommendation names the side
\* with the strictly higher edge, and Over when the two edges are equal.
C3_TieNamesOver ==
    (call = "reco_row" /\ BothPriced) =>
        /\ Gt(arg.eo, arg.eu) => ret.side = "Over"
        /\ Gt(arg.eu, arg.eo) => ret.side = "Under"
        /\ arg.eo = arg.eu => ret.side = "Over"

\* C3 amended: with both sides priced, the recommendation names the side with
\* the strictly higher edge, and Under when the two edges are equal, whatever
\* the line and the thresholds.
C3_TieNamesUnder ==
    (call = "reco_row" /\ BothPriced) =>
        /\ Gt(arg.eo, arg.eu) => ret.side = "Over"
        /\ Gt(arg.eu, arg.eo) => ret.side = "Under"
        /\ arg.eo = arg.eu => ret.side = "Under"

\* C3 witness: two equal edges at the green threshold have been compared and
\* Under was named.
C3_Witness ==
    /\ call = "reco_row"
    /\ arg.eo = Q(4, 100) /\ arg.eu = Q(4, 100)
    /\ ret = [side |-> "Under", line |-> Q(101, 2), tag |-> "GREEN"]

\* the edge the recommendation was tiered on
SelectedEdge == IF ret.side = "Over" THEN arg.eo ELSE arg.eu

\* the three tiers as the claim words them, for an edge e that is a number
TierIs(green, amber, red, e) ==
    /\ green <=> Ge(e, arg.edge_green)
    /\ amber <=> (Ge(e, arg.edge_amber) /\ Lt(e, arg.edge_green))
    /\ red <=> Lt(e, arg.edge_amber)

\* C4: with edge_amber <= edge_green, the tier of the selected side is GREEN
\* iff its edge e >= edge_green, AMBER iff edge_amber <= e < edge_green, and
\* RED (reco_row) or Pass (label) iff e < edge_amber; nothing else enters.
C4_TierByThresholds ==
    Le(arg.edge_amber, arg.edge_green) =>
        /\ (call = "reco_row" /\ ret # RecoPass /\ IsFinite(SelectedEdge)) =>
              TierIs(ret.tag = "GREEN", ret.tag = "AMBER", ret.tag = "RED", SelectedEdge)
        /\ (call = "label" /\ IsFinite(arg.eo)) =>
              TierIs(ret = "Bet (Green)", ret = "Lean (Amber)", ret = "Pass", arg.eo)

\* C4 witness: an edge exactly at edge_green has been tiered GREEN by reco_row,
\* the other side being lower.
C4_Witness ==
    /\ call = "reco_row"
    /\ arg.edge_green = Q(4, 100) /\ arg.edge_amber = Q(1, 100)
    /\ arg.eo = Q(4, 100) /\ arg.eu = Q(1, 100)
    /\ ret.side = "Over" /\ ret.tag = "GREEN"

(***************************************************************************)
(* Claims about the slate run (checked under SpecSlate).                   *)
(***************************************************************************)
\* C8: a quote whose prior mean is missing is skipped: the finished slate run
\* has emitted no row, and so no Over/Under recommendation, for a quote
\* without a prior mean.
C8_MissingPriorIsSkipped ==
    pc = "done" =>
        \A i \in 1..Len(final.rows) : ~IsNaN(final.rows[i].model_mean)

(***************************************************************************)
(* Claims about build_parlays (checked under SpecParlay).                  *)
(***************************************************************************)
\* no row of the table has an edge that reaches the minimum of bucket b
NoneQualifies(b) ==
    \A i \in 1..Len(pred_df.rows) : ~Ge(pred_df.rows[i].edge_pct, MinEdge(b))

\* C10: build_parlays never ends in an error and returns exactly one row per
\* configured bucket, in configuration order; a bucket no priced row reaches
\* has the sentinel (no legs, probability 0, decimal odds 1, EV -1).
C10_OneRowPerBucket ==
    /\ pc # "raised"
    /\ pc = "done" =>
          /\ Len(outs) = Len(cfg.parlays.buckets)
          /\ \A i \in 1..Len(outs) :
                /\ outs[i].bucket = cfg.parlays.buckets[i].name
                /\ NoneQualifies(cfg.parlays.buckets[i]) => outs[i] = Sentinel(outs[i].bucket)

\* the rows of the table that reach the minimum edge of bucket b
QualifyingRows(b) == {r \in RowSet(pred_df) : Ge(r.edge_pct, MinEdge(b))}

\* the row of the table a leg was written from
RowOfLeg(leg) == CHOOSE r \in RowSet(pred_df) : LegText(r) = leg

Least(a, b) == IF a < b THEN a ELSE b

\* the legs of result i are n different qualifying rows, the highest edge
\* first, and no qualifying row left out has a higher edge than a leg
ChosenAre(legs, qualifying, n) ==
    /\ Len(legs) = n
    /\ \A j \in 1..n : \E r \in qualifying : LegText(r) = legs[j]
    /\ \A j, k \in 1..n : j # k => legs[j] # legs[k]
    /\ \A j \in 1..(n - 1) : Ge(RowOfLeg(legs[j]).edge_pct, RowOfLeg(legs[j + 1]).edge_pct)
    /\ \A r \in qualifying :
          (\A j \in 1..n : LegText(r) # legs[j]) =>
              \A j \in 1..n : Ge(RowOfLeg(legs[j]).edge_pct, r.edge_pct)

\* C11 as stated: for a bucket with a qualifying row the legs are the
\* min(max_legs, number of qualifying rows) qualifying rows of highest edge in
\* descending edge order, whatever max_legs is.
C11_LegsAnyMaxLegs ==
    \A i \in 1..Len(outs) :
        QualifyingRows(cfg.parlays.buckets[i]) # {} =>
            ChosenAre(outs[i].legs, QualifyingRows(cfg.parlays.buckets[i]),
                      Least(cfg.parlays.buckets[i].max_legs,
                            Cardinality(QualifyingRows(cfg.parlays.buckets[i]))))

\* C11 amended: for a bucket with a qualifying row the legs are the
\* min(max_legs, 40, number of qualifying rows) qualifying rows of highest
\* edge in descending edge order; the pool cap changes nothing only while
\* max_legs <= 40.
C11_LegsUpToPoolCap ==
    \A i \in 1..Len(outs) :
        QualifyingRows(cfg.parlays.buckets[i]) # {} =>
            ChosenAre(outs[i].legs, QualifyingRows(cfg.parlays.buckets[i]),
                      Least(Least(cfg.parlays.buckets[i].max_legs, PoolCap),
                            Cardinality(QualifyingRows(cfg.parlays.buckets[i]))))

\* a bucket of 41 legs over 41 qualifying rows came out with 40 legs
C11_Witness ==
    /\ pc = "done"
    /\ Len(outs) > 0
    /\ cfg.parlays.buckets[1].max_legs > PoolCap
    /\ Cardinality(QualifyingRows(cfg.parlays.buckets[1])) > PoolCap
    /\ Len(outs[1].legs) = PoolCap

\* the product of the numbers of a sequence, the first factor first
RECURSIVE ProductOf(_, _)
ProductOf(factors, acc) ==
    IF Len(factors) = 0 THEN acc
    ELSE ProductOf(Tail(factors), MulRange(acc, Head(factors)))

\* x = y wherever both are represented
SameValue(x, y) == x = OutOfRange \/ y = OutOfRange \/ x = y

\* p, held within [0.001, 0.999]
HeldProb(p) == IF Lt(p, Q(1, 1000)) THEN Q(1, 1000) ELSE IF Gt(p, Q(999, 1000)) THEN Q(999, 1000) ELSE p

\* result row o combines its legs: the probability is the product of the
\* given per-leg probabilities, the odds the product of the legs' decimal
\* odds, the EV probability x odds - 1
Combines(o, leg_probs) ==
    /\ SameValue(o.parlay_prob, ProductOf(leg_probs, Num(1)))
    /\ SameValue(o.decimal_odds,
                 ProductOf([j \in 1..Len(o.legs) |-> RowOfLeg(o.legs[j]).decimal_odds], Num(1)))
    /\ SameValue(o.ev_per_unit, EvPerUnit(MulRange(o.parlay_prob, o.decimal_odds)))
    /\ o.parlay_prob # OutOfRange /\ o.decimal_odds # OutOfRange => o.ev_per_unit # OutOfRange

\* C12 as stated: for a bucket with a qualifying row the combined probability
\* is the product over the legs of penalty x the leg's probability as priced,
\* for any leg probability in [0, 1]; the combined decimal odds are the
\* product of the legs' decimal odds; the EV is probability x odds - 1.
C12_ProductOfPricedProbs ==
    \A i \in 1..Len(outs) :
        QualifyingRows(cfg.parlays.buckets[i]) # {} =>
            Combines(outs[i],
                     [j \in 1..Len(outs[i].legs) |->
                         Mul(cfg.parlays.correlation_penalty, RowOfLeg(outs[i].legs[j]).side_prob)])

\* C12 amended: the combined probability is the product over the legs of
\* penalty x the leg's probability held within [0.001, 0.999] (the probability
\* as priced when it lies in that interval); odds and EV as stated.
C12_ProductOfHeldProbs ==
    \A i \in 1..Len(outs) :
        QualifyingRows(cfg.parlays.buckets[i]) # {} =>
            Combines(outs[i],
                     [j \in 1..Len(outs[i].legs) |->
                         Mul(cfg.parlays.correlation_penalty,
                             HeldProb(RowOfLeg(outs[i].legs[j]).side_prob))])

\* a result of two legs, one of them priced above 0.999, with its combined
\* values represented
C12_Witness ==
    /\ pc = "done"
    /\ \E i \in 1..Len(outs) :
          /\ Len(outs[i].legs) = 2
          /\ outs[i].parlay_prob # OutOfRange
          /\ \E j \in 1..2 : Gt(RowOfLeg(outs[i].legs[j]).side_prob, Q(999, 1000))

\* result row o has two legs, of decimal odds 2.0 and 1.8 and probabilities
\* 0.55 and 0.5, under the penalty 0.95
IsScenario(o) ==
    /\ cfg.parlays.correlation_penalty = Q(95, 100)
    /\ Len(o.legs) = 2
    /\ \E j, k \in 1..2 :
          /\ j # k
          /\ RowOfLeg(o.legs[j]).decimal_odds = Num(2)
          /\ RowOfLeg(o.legs[j]).side_prob = Q(55, 100)
          /\ RowOfLeg(o.legs[k]).decimal_odds = Q(18, 10)
          /\ RowOfLeg(o.legs[k]).side_prob = Q(1, 2)

\* the values of o at four decimal places
AtFourPlaces(o, prob, dec_odds, ev) ==
    /\ RoundTo(o.parlay_prob, 10000) = prob
    /\ RoundTo(o.decimal_odds, 10000) = dec_odds
    /\ RoundTo(o.ev_per_unit, 10000) = ev

\* C13 as stated: legs of decimal odds 2.0 and 1.8 and probabilities 0.55 and
\* 0.5 under penalty 0.95 give combined probability 0.2484, combined decimal
\* odds 3.6 and EV -0.1057, at four decimal places.
C13_ScenarioAsStated ==
    \A i \in 1..Len(outs) :
        IsScenario(outs[i]) =>
            AtFourPlaces(outs[i], Q(2484, 10000), Q(36, 10), Q(-1057, 10000))

\* C13 amended: the same legs give combined probability 0.2482
\* (0.55 x 0.95 x 0.5 x 0.95 = 0.24819375), combined decimal odds 3.6 and EV
\* -0.1065, at four decimal places.
C13_ScenarioValues ==
    \A i \in 1..Len(outs) :
        IsScenario(outs[i]) =>
            AtFourPlaces(outs[i], Q(2482, 10000), Q(36, 10), Q(-1065, 10000))

\* build_parlays returned a result for the two legs of the scenario
C13_Witness ==
    /\ pc = "done"
    /\ \E i \in 1..Len(outs) : IsScenario(outs[i]) /\ outs[i].parlay_prob = Q(3971, 16000)

\* C14: every priced row reports a model sd >= the floor 1e-6, whatever the
\* prior sd (0 and negative values included) and the widening configuration.
C14_SdAtLeastFloor ==
    \A r \in RowSet(straight_eval) \cup RowSet(alt_eval) : Ge(r.model_sd, Q(1, SdFloorDen))

\* quote i of odds.csv carries the low-tier flag
FlaggedLowTier(i) ==
    "qb_lowtier_flag" \in Range(odds_df.columns) /\ odds_df.rows[i].qb_lowtier_flag = 1

\* the sd of quote i before the widening steps
SdBeforeWidening(i) == SlateMerge(odds_df, priors, cfg).rows[i].model_sd

\* sd after the quarterback-tier step as the claim has it (no quote is
\* flagged for pressure)
SdAfterQbStep(i, sd) ==
    IF Contains("passing", merged.rows[i].market) /\ FlaggedLowTier(i)
    THEN Mul(sd, Add(Num(1), cfg.volatility.widen_sd_if_qb_lowtier)) ELSE sd

\* C15: the quarterback-tier step multiplies sd by 1 + widen_sd_if_qb_lowtier
\* exactly when the market is a passing market and the player is flagged
\* low-tier; for every other market and every unflagged player sd is unchanged.
C15_QbWideningOnlyPassing ==
    pc \in {"priced", "done"} =>
        \A i \in 1..Len(merged.rows) :
            merged.rows[i].model_sd = ClipSd(SdAfterQbStep(i, SdBeforeWidening(i)))

\* no value: absent or not a number
Missing(x) == IsNone(x) \/ IsNaN(x)

\* the side carries a book price (a missing price is NaN after the parse of
\* the odds columns)
CarriesPrice(price) == ~Missing(price)

\* C20: when exactly one side of a quote carries a price, the recommendation
\* names that side, tiered on that side's edge, and never the side without a
\* price; when neither side carries a price the recommendation is "Pass".
C20_OneSidedNamesPricedSide ==
    pc \in {"priced", "done"} =>
        \A i \in 1..Len(merged.rows) :
            /\ (CarriesPrice(merged.rows[i].over_odds) /\ ~CarriesPrice(merged.rows[i].under_odds))
                  => merged.rows[i].bet_reco
                       = RecoOf("Over", merged.rows[i].line, merged.rows[i].edge_over,
                                cfg.risk.edge_green, cfg.risk.edge_amber)
            /\ (~CarriesPrice(merged.rows[i].over_odds) /\ CarriesPrice(merged.rows[i].under_odds))
                  => merged.rows[i].bet_reco
                       = RecoOf("Under", merged.rows[i].line, merged.rows[i].edge_under,
                                cfg.risk.edge_green, cfg.risk.edge_amber)
            /\ (~CarriesPrice(merged.rows[i].over_odds) /\ ~CarriesPrice(merged.rows[i].under_odds))
                  => merged.rows[i].bet_reco = RecoPass

(***************************************************************************)
(* Claims about the weather widening (checked under SpecWeather).          *)
(***************************************************************************)
\* 1 + wind_sd_widen if wind >= wind_threshold_mph else 1
WindFactor ==
    IF ~Missing(arg.wind_mph) /\ Ge(arg.wind_mph, arg.cfg.volatility.wind_threshold_mph)
    THEN Add(Num(1), arg.cfg.volatility.wind_sd_widen) ELSE Num(1)

\* 1 + cold_sd_widen if temp <= cold_threshold_f else 1
ColdFactor ==
    IF ~Missing(arg.temp_f) /\ Le(arg.temp_f, arg.cfg.volatility.cold_threshold_f)
    THEN Add(Num(1), arg.cfg.volatility.cold_sd_widen) ELSE Num(1)

\* C16: the weather sd multiplier is (1 + wind_sd_widen if wind >= threshold
\* else 1) x (1 + cold_sd_widen if temp <= threshold else 1), both comparisons
\* inclusive and both factors applied together; widening sd by wind then cold
\* equals widening by cold then wind; a missing reading contributes factor 1.
C16_WeatherMultiplier ==
    /\ call \in {"weather_penalty", "weather_widener"} =>
          /\ ret.widen = Mul(WindFactor, ColdFactor)
          /\ Missing(arg.wind_mph) /\ Missing(arg.temp_f) => ret.widen = Num(1)
    /\ call = "weather_widener" =>
          /\ ret.sd = Mul(Mul(arg.sd, WindFactor), ColdFactor)
          /\ ret.sd = Mul(Mul(arg.sd, ColdFactor), WindFactor)

\* wind and temperature both exactly at their thresholds: sd widened by both
C16_Witness ==
    /\ call = "weather_widener"
    /\ arg.cfg = PkgCfg
    /\ arg.wind_mph = PkgCfg.volatility.wind_threshold_mph
    /\ arg.temp_f = PkgCfg.volatility.cold_threshold_f
    /\ arg.sd = Num(20)
    /\ ret.sd = Q(231, 10)

(***************************************************************************)
(* Claims about the context signals (checked under SpecFeeds).             *)
(***************************************************************************)
\* feed k is unavailable: it has no url, or every request for it failed
Unavailable(k) == ~fetched[k].read

\* the signals of the unavailable feeds are neutral; no feed marks a defence
SignalsNeutral ==
    /\ Unavailable(1) => mods.off_epa = <<>>
    /\ Unavailable(2) => mods.pace = <<>>
    /\ Unavailable(3) => mods.proe = <<>>
    /\ Unavailable(4) => mods.low_tier_qb = {}
    /\ mods.top10_pressure = {}

\* the row has a prior and no team, usage, weather, pressure or tier signal
NoSignal(row) ==
    /\ ~IsNaN(row.mean) /\ ~IsNaN(row.sd)
    /\ row.team \notin (DOMAIN mods.pace) \cup (DOMAIN mods.proe) \cup (DOMAIN mods.off_epa)
    /\ row.snap_adj = Num(1) /\ row.share_adj = Num(1)
    /\ Missing(row.temp_f) /\ Missing(row.wind_mph)
    /\ row.opp \notin mods.top10_pressure
    /\ row.player \notin mods.low_tier_qb

LoadedSafely ==
    /\ exc = "none"
    /\ \A k \in DOMAIN tries : tries[k] <= MaxTries
    /\ pc \in {"loaded", "done"} => SignalsNeutral
    /\ pc = "done" /\ NoSignal(arg) => ret = [mu |-> arg.mean, sd |-> arg.sd]

\* the steps taken so far: the requests sent, the feeds settled, the stages
\* passed
RECURSIVE Total(_)
Total(counts) == IF Len(counts) = 0 THEN 0 ELSE Head(counts) + Total(Tail(counts))

StepsTaken ==
    Total(tries) + Len(fetched) + (IF pc = "fetch" THEN 0 ELSE IF pc = "loaded" THEN 1 ELSE 2)

\* the most steps a load and one adjustment can take
StepsAtMost == MaxTries * Len(FeedNames) + Len(FeedNames) + 2

\* a step is possible: a feed is still to be settled (no url, or a request to
\* send, or the requests used up), or the mods are still to be built or used
CanStep ==
    \/ /\ pc = "fetch" /\ Len(fetched) < Len(FeedNames)
       /\ \/ Asked \notin DOMAIN cfg.feeds
          \/ tries[Len(fetched) + 1] <= MaxTries
    \/ pc = "fetch" /\ Len(fetched) = Len(FeedNames)
    \/ pc = "loaded"

\* C17: whichever feeds are unavailable, loading the context signals ends
\* without raising (every step counts up towards a fixed bound, and only the
\* finished run has no step left), no feed is requested more than 3 times,
\* the signals of the unavailable feeds are neutral (no team multipliers,
\* empty flag sets), and a row without any signal keeps its prior (mean, sd).
C17_FeedsFailNeutral ==
    /\ [](LoadedSafely /\ StepsTaken <= StepsAtMost /\ (pc # "done" => CanStep))
    /\ [][StepsTaken' > StepsTaken]_vars

\* every feed was requested three times and given up, and the quarterback's
\* passing row came out with its prior
C17_Witness ==
    /\ pc = "done"
    /\ \A k \in 1..Len(FeedNames) : tries[k] = MaxTries /\ Unavailable(k)
    /\ arg.player = "QB" /\ NoSignal(arg)
    /\ ret = [mu |-> Num(240), sd |-> Num(40)]

(***************************************************************************)
(* Claims about devig_two_way (checked under SpecDevig).                   *)
(***************************************************************************)
Positive(x) == FlCmp(x, Fl0) > 0

Devigged == call = "devig_two_way"

RawSum == FlAdd(arg.p_over, arg.p_under)

Half == FlDiv(Fl1, FlOfInt(2))

\* 2^-52, the distance from 1.0 to the next float
Ulp == FlRound(1, <<1>>, -52, FALSE)

\* C18 as stated: devig_two_way(p_a, p_b) is the absent result (None, None)
\* exactly when p_a + p_b <= 0; otherwise it is (p_a/s, p_b/s) for the sum s,
\* the two components sum to 1, and devig_two_way(p, p) is (0.5, 0.5) for
\* p > 0.
C18_DevigSumsToOne ==
    Devigged
        => /\ ret = Absent <=> FlCmp(RawSum, Fl0) <= 0
           /\ FlCmp(RawSum, Fl0) > 0
                 => /\ ret = [over |-> FlDiv(arg.p_over, RawSum),
                              under |-> FlDiv(arg.p_under, RawSum)]
                    /\ FlAdd(ret.over, ret.under) = Fl1
           /\ (arg.p_over = arg.p_under /\ Positive(arg.p_over))
                 => ret = [over |-> Half, under |-> Half]

\* C18 as amended: the same, with the sum of the two components within one
\* unit in the last place (2^-52) of 1 for raw probabilities that are not
\* negative.
C18_DevigTwoWay ==
    Devigged
        => /\ ret = Absent <=> FlCmp(RawSum, Fl0) <= 0
           /\ FlCmp(RawSum, Fl0) > 0
                 => /\ ret = [over |-> FlDiv(arg.p_over, RawSum),
                              under |-> FlDiv(arg.p_under, RawSum)]
                    /\ (FlCmp(arg.p_over, Fl0) >= 0 /\ FlCmp(arg.p_under, Fl0) >= 0)
                          => FlCmp(FlAbs(FlSub(FlAdd(ret.over, ret.under), Fl1)), Ulp) <= 0
           /\ (arg.p_over = arg.p_under /\ Positive(arg.p_over))
                 => ret = [over |-> Half, under |-> Half]

\* the implied probabilities of -110 and -109 came back with a sum just
\* below 1
C18_Witness ==
    /\ Devigged
    /\ arg = [p_over |-> american_to_implied64(FlOfInt(-110)),
              p_under |-> american_to_implied64(FlOfInt(-109))]
    /\ ret # Absent
    /\ FlCmp(FlAdd(ret.over, ret.under), Fl1) < 0
    /\ FlCmp(FlSub(Fl1, FlAdd(ret.over, ret.under)), Ulp) <= 0

(***************************************************************************)
(* Claims about the edge measures (checked under SpecEdge).                *)
(***************************************************************************)
\* 2^-40, about 1e-12
Tiny == FlRound(1, <<1>>, -40, FALSE)

EdgeMeasured == call \in {"edge_core", "edge_pkg"}

\* p minus the implied probability of the price
EdgeGap == FlSub(arg.p, ret.implied)

HasLegs(i) == outs[i] # Sentinel(outs[i].bucket)

\* C21: over one table of priced rows, the rows qualifying for a bucket are
\* monotone in its configured min_edge_pct: for two buckets configured with
\* a < b (fractions below 1 or percentages of 1 or more), every row that
\* qualifies under b qualifies under a, so a result with legs under b comes
\* with a result with legs under a.
C21_QualifyingMonotone ==
    \A i, j \in 1..Len(outs) :
        Lt(cfg.parlays.buckets[i].min_edge_pct, cfg.parlays.buckets[j].min_edge_pct)
            => /\ QualifyingRows(cfg.parlays.buckets[j]) \subseteq QualifyingRows(cfg.parlays.buckets[i])
               /\ HasLegs(j) => HasLegs(i)

====
